---- MODULE Spec2Model ----
(***************************************************************************)
(* Model of prometheus/app.py: the registry reader, the change detector,   *)
(* the configuration synthesizer, the process supervisor                   *)
(* (start_prometheus / stop_prometheus / reload_prometheus), the port      *)
(* reclaimer and the change monitor loop, with the Flask request handlers  *)
(* and the monitor thread as concurrent threads over the module globals.   *)
(*                                                                         *)
(* A thread step is one access to shared state (a module global, the       *)
(* registry, the configuration file, a process): Python switches threads   *)
(* between bytecodes, so each such access is its own action.               *)
(***************************************************************************)
EXTENDS Integers, Sequences, FiniteSets, TLC

(* ------------------------------ bounds -------------------------------- *)

\* Daemon processes that subprocess.Popen can launch in one run of the model.
MaxProcs == 2
\* Monitor threads that threading.Thread can create in one run of the model
\* (the first is the one __main__ starts).
MaxMonThreads == 3
\* Rows of public.services that the functions of the synthesizer and of the
\* change detector are applied to.
MaxRows == 4

(* ------------------------- program constants -------------------------- *)

PROMETHEUS_PORT == 9090
\* range(10) in stop_prometheus: polls for exit after SIGTERM.
StopPollChecks == 10

\* prometheus_process = None
NoProcess == 0
Procs == 1..MaxProcs

\* Request-handler threads of the Flask server (threaded) and monitor threads.
Handlers == {<<"h", 1>>, <<"h", 2>>}
Monitors == {<<"m", j>> : j \in 1..MaxMonThreads}
\* monitoring_thread = None
NoThread == <<"m", 0>>
Threads == Handlers \cup Monitors

(* ----------------------------- registry ------------------------------- *)

\* A metric_url as text, scheme://host[:port]/path: the scheme, the host and
\* the characters between the colon and the path (<<>>: no port given).
Url(s, h, p) == [scheme |-> s, host |-> h, port |-> p]

\* str.lower() on the hosts and schemes of the model.
Lower(x) ==
    CASE x = "C.com" -> "c.com"
      [] x = "XYZ.com" -> "xyz.com"
      [] x = "HTTP" -> "http"
      [] OTHER -> x

\* The characters of a port text: the digits, and a character that is none.
Digits == 0..9
Letter == 10
MaxPort == 65535

RECURSIVE ToInt(_)
\* int() of a string of digits
ToInt(text) ==
    IF text = <<>> THEN 0 ELSE 10 * ToInt(SubSeq(text, 1, Len(text) - 1)) + text[Len(text)]

\* Python's None
None == <<"None">>
NoPort == <<"None">>
ValueError == <<"ValueError">>
Port(n) == <<"int", n>>

\* urlparse(url).port: None without a port, the number, or ValueError for
\* text that is no number or a number out of range.
ParsedPort(url) ==
    IF url.scheme = "" THEN NoPort
    ELSE IF url.port = <<>> THEN NoPort
    ELSE IF \E i \in 1..Len(url.port) : url.port[i] \notin Digits THEN ValueError
    ELSE IF ToInt(url.port) > MaxPort THEN ValueError
    ELSE Port(ToInt(url.port))

\* urlparse(url).hostname is None for a text without "scheme://" (the text
\* is all path, or its part before the first colon is taken for the scheme)
\* and for an empty host.
HostnameIsNone(url) == url.scheme = "" \/ url.host = ""

\* urlparse(url).hostname as an f-string prints it, and .scheme: lower-cased.
\* A text without "scheme://" has no scheme that is http or https.
ParsedHostname(url) == IF HostnameIsNone(url) THEN "None" ELSE Lower(url.host)
ParsedScheme(url) == Lower(url.scheme)

\* The metric_url texts of the model.
\* The metric_url texts of the model; "" is a missing "scheme://", a missing host.
Schemes == <<"https", "http", "ftp", "HTTP", "">>
Hosts == <<"a.com", "b.com", "C.com", "XYZ.com", "">>
PortTexts == <<<<>>, <<9, 0, 0, 0>>, <<0>>, <<9, 9, 9, 9, 9>>, <<Letter>>>>
Urls ==
    {Url(Schemes[i], Hosts[j], PortTexts[k]) :
        i \in 1..Len(Schemes), j \in 1..Len(Hosts), k \in 1..Len(PortTexts)}

\* Rows of public.services: (service_id, metric_url, organization_id, name).
\* service_id is the table's key; the organization order differs from the
\* service_id order so that the SQL order and the hash's sort order differ.
Svc(id, url, org, nm) ==
    [service_id |-> id, metric_url |-> url, organization_id |-> org, name |-> nm]

\* Row i of the table: rows 1 and 2 are https://a.com/... of organization 3
\* and http://b.com:9000/... of organization 2.
Pick(seq, i) == seq[((i - 1) % Len(seq)) + 1]
Row(i) ==
    Svc(i,
        Url(Pick(Schemes, i), Pick(Hosts, i), Pick(PortTexts, i)),
        ((2 * i) % 3) + 1,
        <<"service", i>>)

\* The rows the registry of the threaded specifications holds or lacks.
Universe == {Row(1), Row(2)}

\* The rows the functions are applied to.
Catalog == {Row(i) : i \in 1..MaxRows}

\* ORDER BY organization_id, service_id
SqlLess(a, b) ==
    \/ a.organization_id < b.organization_id
    \/ a.organization_id = b.organization_id /\ a.service_id < b.service_id

RECURSIVE Rows(_)
\* cursor.fetchall() of the query of fetch_services, as a list of dictionaries.
Rows(S) ==
    IF S = {} THEN <<>>
    ELSE LET first == CHOOSE x \in S : \A y \in S \ {x} : SqlLess(x, y)
         IN  <<first>> \o Rows(S \ {first})

RECURSIVE SqlInsert(_, _)
SqlInsert(x, sorted) ==
    IF sorted = <<>> THEN <<x>>
    ELSE IF SqlLess(x, Head(sorted)) THEN <<x>> \o sorted
    ELSE <<Head(sorted)>> \o SqlInsert(x, Tail(sorted))

\* Mutant: the query without its ORDER BY returns the rows as stored.
OrderBy_as_stored(heap) == heap

RECURSIVE OrderBy(_)
\* The query's ORDER BY organization_id, service_id over the rows in the
\* order the table stores them.
OrderBy(heap) ==
    IF heap = <<>> THEN <<>> ELSE SqlInsert(Head(heap), OrderBy(Tail(heap)))

\* Line of fetch_services that returns: 53 (no connection), 82 (query error),
\* 77 (the rows).
FetchFailLines == {53, 82}
FetchOkLine == 77

\* Mutant: a failed read hands back the rows all the same.
FetchResult_ignores_failure(ln, S) == Rows(S)

\* What fetch_services returns at the line it returns from.
FetchResult(ln, S) == IF ln \in FetchFailLines THEN <<>> ELSE Rows(S)

(* -------------------------- change detector --------------------------- *)

TupleOf(s) == <<s.service_id, s.metric_url, s.organization_id, s.name>>

\* Python's tuple order; service_id is unique, so the first component decides.
TupleLess(a, b) == a[1] < b[1]

\* Mutant: the tuples are digested in the order of the list.
Sorted_as_listed(seq) == seq

RECURSIVE Insert(_, _)
Insert(x, sorted) ==
    IF sorted = <<>> THEN <<x>>
    ELSE IF TupleLess(x, Head(sorted)) THEN <<x>> \o sorted
    ELSE <<Head(sorted)>> \o Insert(x, Tail(sorted))

RECURSIVE Sorted(_)
\* sorted([...]) of a list of tuples
Sorted(seq) == IF seq = <<>> THEN <<>> ELSE Insert(Head(seq), Sorted(Tail(seq)))

\* hashlib.md5(str(sorted tuples)): the digest is modelled by the digested
\* text itself (collisions aside).
get_services_hash(services) ==
    IF services = <<>> THEN None
    ELSE <<"md5", Sorted([i \in 1..Len(services) |-> TupleOf(services[i])])>>

(* ------------------------ config synthesizer -------------------------- *)

\* What extract_target_from_url returns: f"{host}:{port}", the bare host,
\* or the url it was given.
Addr(h, p) == <<"host:port", h, p>>
BareHost(h) == <<"host", h>>
Unparsed(url) == <<"url", url>>

\* Mutant: every URL without a port gets the https default.
extract_target_from_url_https_only(url) ==
    IF ParsedPort(url) = ValueError THEN Unparsed(url)
    ELSE IF ParsedPort(url) \notin {NoPort, Port(0)}
         THEN Addr(ParsedHostname(url), ParsedPort(url)[2])
    ELSE Addr(ParsedHostname(url), 443)

\* "if port:" is false for None and for 0; the ValueError of .port is caught
\* at line 189 and the url returned as it came; "return host" of line 187
\* returns None when urlparse found no host.
extract_target_from_url(url) ==
    IF ParsedPort(url) = ValueError THEN Unparsed(url)
    ELSE IF ParsedPort(url) \notin {NoPort, Port(0)}
         THEN Addr(ParsedHostname(url), ParsedPort(url)[2])
    ELSE IF ParsedScheme(url) = "https" THEN Addr(ParsedHostname(url), 443)
    ELSE IF ParsedScheme(url) = "http" THEN Addr(ParsedHostname(url), 80)
    ELSE IF HostnameIsNone(url) THEN None
    ELSE BareHost(ParsedHostname(url))

RECURSIVE OrgOrder(_, _)
\* Keys of the org_services dict in insertion (first-seen) order.
OrgOrder(services, seenOrgs) ==
    IF services = <<>> THEN <<>>
    ELSE LET o == Head(services).organization_id
         IN  IF o \in seenOrgs THEN OrgOrder(Tail(services), seenOrgs)
             ELSE <<o>> \o OrgOrder(Tail(services), seenOrgs \cup {o})

\* str(org_id)
Str(n) == <<"str", n>>

\* A scrape job: its name, the targets and the labels of its static_configs.
Job(nm, targets, labels) == [job_name |-> nm, targets |-> targets, labels |-> labels]

\* Mutant: each organization's job lists every service.
OrgServices_everyone(services, o) == services

\* org_services[o]: the services of organization o in the order of the list
OrgServices(services, o) ==
    SelectSeq(services, LAMBDA s : s.organization_id = o)

\* None of generate_prometheus_config, and the absent configuration file.
NoDocument == <<>>

\* The job of lines 211-214 and the job of lines 232-244 for organization o.
SelfJob == Job(<<"prometheus">>, <<Addr("localhost", PROMETHEUS_PORT)>>, {})
OrgJob(services, o) ==
    LET list == OrgServices(services, o)
    IN  Job(<<"org_", Str(o)>>,
            [i \in 1..Len(list) |-> extract_target_from_url(list[i].metric_url)],
            {<<"organization_id", Str(o)>>})

\* Mutant: the self-monitoring job is appended after the organizations' jobs.
generate_prometheus_config_self_last(services) ==
    IF services = <<>> THEN NoDocument
    ELSE LET orgs == OrgOrder(services, {})
         IN  [i \in 1..Len(orgs) |-> OrgJob(services, orgs[i])] \o <<SelfJob>>

\* The scrape_configs list of the configuration document.
generate_prometheus_config(services) ==
    IF services = <<>> THEN NoDocument
    ELSE LET orgs == OrgOrder(services, {})
         IN  <<SelfJob>> \o [i \in 1..Len(orgs) |-> OrgJob(services, orgs[i])]

(* ------------------------------- state -------------------------------- *)

VARIABLES
    prometheus_process,   \* the global process handle: NoProcess or a process
    proc,                 \* each launched daemon: "unborn", "alive",
                          \* "terminating" (alive, SIGTERM delivered), "dead"
    sent,                 \* the signals the last step delivered: {<<process, signal>>}
    monitoring_thread,    \* the global thread handle
    monitoring_active,    \* the global flag of the monitor loop
    last_services_hash,   \* the global fingerprint
    registry,             \* the rows of public.services
    config_file,          \* the content of PROMETHEUS_CONFIG_PATH
    pc,                   \* each thread's position
    op,                   \* the operation a request handler executes
    ret,                  \* the value the thread's supervisor call returned
    line,                 \* the source line of the thread's last return, raise or warning
    cur,                  \* services of generate_prometheus_config; pids of
                          \* kill_processes_on_port
    seen,                 \* current_services of monitor_services
    polls,                \* the loop counter of stop_prometheus; the position in
                          \* pids of kill_processes_on_port
    calls,                \* reload_prometheus() calls of the monitor thread's cycle
    args,                 \* a function applied on its own: its name and argument
    returned              \* the value that application returned

vars == <<prometheus_process, proc, sent, monitoring_thread, monitoring_active,
          last_services_hash, registry, config_file, pc, op, ret, line, cur,
          seen, polls, calls, args, returned>>

sup == <<prometheus_process, proc>>
mon == <<monitoring_thread, monitoring_active, last_services_hash>>
locals == <<op, ret, line, cur, seen, polls, calls>>
fn == <<args, returned>>

\* No function has been applied on its own.
NoCall == <<>>

\* prometheus_process.poll() is None
PollIsNone(p) == proc[p] \in {"alive", "terminating"}

\* "prometheus_process and prometheus_process.poll() is None", evaluated at once.
Running == prometheus_process # NoProcess /\ PollIsNone(prometheus_process)

IsAlive(m) == m # NoThread /\ pc[m] \notin {"unborn", "exited"}

\* The state when app.run starts serving: __main__ has written the initial
\* configuration, stored the initial fingerprint and started the monitor thread.
Init ==
    /\ prometheus_process = NoProcess
    /\ proc = [p \in Procs |-> "unborn"]
    /\ sent = {}
    /\ registry \in SUBSET Universe
    /\ config_file = generate_prometheus_config(Rows(registry))
    /\ last_services_hash = get_services_hash(Rows(registry))
    /\ monitoring_active = TRUE
    /\ monitoring_thread = <<"m", 1>>
    /\ pc = [t \in Threads |->
                IF t \in Handlers THEN "idle"
                ELSE IF t = <<"m", 1>> THEN "m_loop" ELSE "unborn"]
    /\ op = [t \in Threads |-> IF t \in Handlers THEN "none" ELSE "monitor"]
    /\ ret = [t \in Threads |-> FALSE]
    /\ line = [t \in Threads |-> 0]
    /\ cur = [t \in Threads |-> <<>>]
    /\ seen = [t \in Threads |-> <<>>]
    /\ polls = [t \in Threads |-> 0]
    /\ calls = [t \in Threads |-> 0]
    /\ args = NoCall
    /\ returned = NoCall

(* ----------------------------- threads -------------------------------- *)

Goto(t, l) == pc' = [pc EXCEPT ![t] = l]

\* One signal is delivered to process p.
Signal(p, s) == sent' = {<<p, s>>}

\* A return (or a caught exception's return) of start/stop/reload at source
\* line ln with value r: a request handler has its result, the monitor thread
\* goes on to its sleep.
Finish(t, r, ln) ==
    /\ pc' = [pc EXCEPT ![t] = IF t \in Handlers THEN "done" ELSE "m_sleep"]
    /\ ret' = [ret EXCEPT ![t] = r]
    /\ line' = [line EXCEPT ![t] = ln]

Entry(o) ==
    CASE o = "start" -> "s_check1"
      [] o = "stop" -> "p_check1"
      [] o = "reload" -> "r_check1"
      [] o = "kill_port" -> "k_port"
      [] o = "kill_processes_on_port" -> "k_lsof"
      [] o = "cleanup_on_exit" -> "c_flag"
      [] o = "start_monitoring" -> "sm_check"
      [] o = "stop_monitoring" -> "pm_flag"

SupervisorOps == {"start", "stop", "reload"}
AllOps == SupervisorOps \cup {"kill_port", "start_monitoring", "stop_monitoring"}

\* A request arrives: the handler calls the operation of its route.
Call(t, o) ==
    /\ pc[t] = "idle"
    /\ o = "start_monitoring" => \E m \in Monitors : pc[m] = "unborn"
    /\ Goto(t, Entry(o))
    /\ op' = [op EXCEPT ![t] = o]
    /\ sent' = {}
    /\ UNCHANGED <<fn, sup, mon, registry, config_file, ret, line, cur, seen, polls, calls>>

\* The handler sends its response.
Return(t) ==
    /\ pc[t] = "done"
    /\ Goto(t, "idle")
    /\ op' = [op EXCEPT ![t] = "none"]
    /\ ret' = [ret EXCEPT ![t] = FALSE]
    /\ line' = [line EXCEPT ![t] = 0]
    /\ cur' = [cur EXCEPT ![t] = <<>>]
    /\ polls' = [polls EXCEPT ![t] = 0]
    /\ sent' = {}
    /\ UNCHANGED <<fn, sup, mon, registry, config_file, seen, calls>>

(* ------------------- registry reader, config write -------------------- *)

\* fetch_services(), called by generate_prometheus_config: the rows of the
\* registry, or [] when the connection or the query fails.
fetch_services(t, at, next) ==
    /\ pc[t] = at
    /\ \E ln \in FetchFailLines \cup {FetchOkLine} :
           /\ cur' = [cur EXCEPT ![t] = FetchResult(ln, registry)]
           /\ line' = [line EXCEPT ![t] = ln]
    /\ Goto(t, next)
    /\ sent' = {}
    /\ UNCHANGED <<fn, sup, mon, registry, config_file, op, ret, seen, polls, calls>>

\* Mutant: with no document the file is opened for writing and left empty.
write_prometheus_config_truncates(t, at, next, failLine) ==
    /\ pc[t] = at
    /\ \/ /\ generate_prometheus_config(cur[t]) = NoDocument
          /\ Finish(t, FALSE, failLine)
          /\ config_file' = NoDocument
       \/ /\ generate_prometheus_config(cur[t]) # NoDocument
          /\ config_file' = generate_prometheus_config(cur[t])
          /\ Goto(t, next)
          /\ UNCHANGED <<ret, line>>
    /\ sent' = {}
    /\ UNCHANGED <<fn, sup, mon, registry, op, cur, seen, polls, calls>>

\* The rest of write_prometheus_config(): False when there is no document or
\* the write raises (the caller then returns False at failLine), else the
\* file holds the document.
write_prometheus_config(t, at, next, failLine) ==
    /\ pc[t] = at
    /\ \/ /\ generate_prometheus_config(cur[t]) = NoDocument
          /\ Finish(t, FALSE, failLine)
          /\ UNCHANGED config_file
       \/ /\ generate_prometheus_config(cur[t]) # NoDocument
          /\ config_file' = generate_prometheus_config(cur[t])
          /\ Goto(t, next)
          /\ UNCHANGED <<ret, line>>
       \/ /\ generate_prometheus_config(cur[t]) # NoDocument
          /\ Finish(t, FALSE, failLine)
          /\ UNCHANGED config_file
    /\ sent' = {}
    /\ UNCHANGED <<fn, sup, mon, registry, op, cur, seen, polls, calls>>

(* --------------------------- port reclaimer --------------------------- *)

\* The processes lsof reports on the port: the live launched daemons.
OnPort == {p \in Procs : PollIsNone(p)}

\* kill_processes_on_port(PROMETHEUS_PORT) returning r.
kill_processes_on_port(r) ==
    \/ /\ r = FALSE                    \* lookup timeout, no lsof, other error
       /\ sent' = {}
       /\ UNCHANGED proc
    \/ /\ r = TRUE                     \* port already free
       /\ OnPort = {}
       /\ sent' = {}
       /\ UNCHANGED proc
    \/ /\ r = TRUE                     \* SIGTERM, then SIGKILL if still running
       /\ OnPort # {}
       /\ \E forced \in BOOLEAN :
              sent' = {<<p, s>> : p \in OnPort,
                                 s \in IF forced THEN {"TERM", "KILL"} ELSE {"TERM"}}
       /\ proc' = [p \in Procs |-> IF p \in OnPort THEN "dead" ELSE proc[p]]
    \/ /\ r = TRUE                     \* every kill timed out
       /\ OnPort # {}
       /\ sent' = {}
       /\ UNCHANGED proc

\* api_kill_prometheus_port
kill_port(t) ==
    /\ pc[t] = "k_port"
    /\ \E r \in BOOLEAN :
           /\ kill_processes_on_port(r)
           /\ Finish(t, r, IF r THEN 681 ELSE 683)
    /\ UNCHANGED <<fn, prometheus_process, mon, registry, config_file, op, cur, seen, polls, calls>>

(* ----------------- kill_processes_on_port, step by step --------------- *)

\* The orders in which lsof may list the processes on the port.
PidLists ==
    {f \in [1..Cardinality(OnPort) -> OnPort] :
        \A i, j \in 1..Cardinality(OnPort) : f[i] = f[j] => i = j}

\* The pid of the current iteration of the loop of line 279.
Pid(t) == cur[t][polls[t]]

\* The end of an iteration: the next pid, or the sleep of line 303.
NextPid(t) ==
    IF polls[t] < Len(cur[t])
        THEN /\ polls' = [polls EXCEPT ![t] = polls[t] + 1]
             /\ Goto(t, "k_term")
        ELSE /\ Goto(t, "k_release")
             /\ UNCHANGED polls

\* lines 272-276 and 306-312, 327-329: lsof lists the pids on the port
kill_lsof(t) ==
    /\ pc[t] = "k_lsof"
    /\ \/ /\ OnPort # {}
          /\ \E pids \in PidLists : cur' = [cur EXCEPT ![t] = pids]
          /\ polls' = [polls EXCEPT ![t] = 1]
          /\ Goto(t, "k_term")
          /\ UNCHANGED <<ret, line>>
       \/ /\ OnPort = {}
          /\ Finish(t, TRUE, 308)
          /\ UNCHANGED <<cur, polls>>
       \/ /\ \E ln \in {312, 329} : Finish(t, FALSE, ln)     \* timeout, other error
          /\ UNCHANGED <<cur, polls>>
       \/ /\ Goto(t, "k_netstat")                            \* FileNotFoundError
          /\ UNCHANGED <<ret, line, cur, polls>>
    /\ sent' = {}
    /\ UNCHANGED <<fn, sup, mon, registry, config_file, op, seen, calls>>

\* Mutant: the fallback's errors are not caught.
kill_netstat_uncaught(t) ==
    /\ pc[t] = "k_netstat"
    /\ \/ Finish(t, OnPort = {}, IF OnPort = {} THEN 323 ELSE 320)
       \/ /\ Goto(t, "raised")
          /\ UNCHANGED <<ret, line>>
    /\ sent' = {}
    /\ UNCHANGED <<fn, sup, mon, registry, config_file, op, cur, seen, polls, calls>>

\* lines 313-326: without lsof, netstat tells whether the port is in use
kill_netstat(t) ==
    /\ pc[t] = "k_netstat"
    /\ \/ Finish(t, OnPort = {}, IF OnPort = {} THEN 323 ELSE 320)
       \/ Finish(t, FALSE, 326)
    /\ sent' = {}
    /\ UNCHANGED <<fn, sup, mon, registry, config_file, op, cur, seen, polls, calls>>

\* line 284: kill -TERM pid. The command's exit status is not looked at; a
\* timeout ends the iteration at line 299, any other error the call at 329.
kill_term(t) ==
    /\ pc[t] = "k_term"
    /\ \/ /\ PollIsNone(Pid(t))
          /\ Signal(Pid(t), "TERM")
          /\ proc' = [proc EXCEPT ![Pid(t)] = "terminating"]
          /\ Goto(t, "k_wait")
          /\ UNCHANGED <<ret, line, polls>>
       \/ /\ ~PollIsNone(Pid(t))                  \* no such process
          /\ sent' = {}
          /\ Goto(t, "k_wait")
          /\ UNCHANGED <<ret, line, polls, proc>>
       \/ /\ NextPid(t)                           \* TimeoutExpired
          /\ line' = [line EXCEPT ![t] = 299]
          /\ sent' = {}
          /\ UNCHANGED <<ret, proc>>
       \/ /\ Finish(t, FALSE, 329)
          /\ sent' = {}
          /\ UNCHANGED <<polls, proc>>
    /\ UNCHANGED <<fn, prometheus_process, mon, registry, config_file, op, cur, seen, calls>>

\* line 286: time.sleep(2)
kill_wait(t) ==
    /\ pc[t] = "k_wait"
    /\ Goto(t, "k_check")
    /\ sent' = {}
    /\ UNCHANGED <<fn, sup, mon, registry, config_file, locals>>

\* Mutant: the forced kill follows whatever kill -0 returned.
kill_check_unconditional(t) ==
    /\ pc[t] = "k_check"
    /\ Goto(t, "k_force")
    /\ sent' = {}
    /\ UNCHANGED <<fn, sup, mon, registry, config_file, locals>>

\* lines 289-295: kill -0 pid succeeds while the pid exists: the process
\* runs, or it is the supervisor's own child that has exited and has not
\* been reaped by a poll() yet
kill_check(t) ==
    /\ pc[t] = "k_check"
    /\ \/ /\ PollIsNone(Pid(t))
          /\ Goto(t, "k_force")
          /\ UNCHANGED <<ret, line, polls>>
       \/ /\ ~PollIsNone(Pid(t))
          /\ Pid(t) = prometheus_process           \* a zombie
          /\ Goto(t, "k_force")
          /\ UNCHANGED <<ret, line, polls>>
       \/ /\ ~PollIsNone(Pid(t))                  \* terminated, line 295
          /\ NextPid(t)
          /\ line' = [line EXCEPT ![t] = 295]
          /\ UNCHANGED ret
       \/ /\ NextPid(t)                           \* TimeoutExpired
          /\ line' = [line EXCEPT ![t] = 299]
          /\ UNCHANGED ret
    /\ sent' = {}
    /\ UNCHANGED <<fn, sup, mon, registry, config_file, op, cur, seen, calls>>

\* lines 291-292: kill -KILL pid
kill_force(t) ==
    /\ pc[t] = "k_force"
    /\ \/ /\ Signal(Pid(t), "KILL")
          /\ proc' = [proc EXCEPT ![Pid(t)] = "dead"]
          /\ line' = [line EXCEPT ![t] = 292]
       \/ /\ line' = [line EXCEPT ![t] = 299]     \* TimeoutExpired
          /\ sent' = {}
          /\ UNCHANGED proc
    /\ NextPid(t)
    /\ UNCHANGED <<fn, prometheus_process, mon, registry, config_file, op, ret, cur, seen,
                   calls>>

\* lines 303-305: time.sleep(3), return True
kill_release(t) ==
    /\ pc[t] = "k_release"
    /\ Finish(t, TRUE, 305)
    /\ sent' = {}
    /\ UNCHANGED <<fn, sup, mon, registry, config_file, op, cur, seen, polls, calls>>

kill_processes_on_port_body(t) ==
    \/ kill_lsof(t) \/ kill_netstat(t) \/ kill_term(t) \/ kill_wait(t)
    \/ kill_check(t) \/ kill_force(t) \/ kill_release(t)

(* -------------------------- start_prometheus -------------------------- *)

\* line 337, first operand: the global is loaded and tested
start_check1(t) ==
    /\ pc[t] = "s_check1"
    /\ Goto(t, IF prometheus_process = NoProcess THEN "s_killport" ELSE "s_check2")
    /\ sent' = {}
    /\ UNCHANGED <<fn, sup, mon, registry, config_file, locals>>

\* Mutant: start_prometheus without the already-running return.
start_check2_no_return(t) ==
    /\ pc[t] = "s_check2"
    /\ Goto(t, "s_killport")
    /\ sent' = {}
    /\ UNCHANGED <<fn, sup, mon, registry, config_file, locals>>

\* Mutant: start_prometheus testing the handle only, without poll().
start_check2_no_poll(t) ==
    /\ pc[t] = "s_check2"
    /\ \/ /\ prometheus_process = NoProcess
          /\ Finish(t, FALSE, 380)
       \/ /\ prometheus_process # NoProcess
          /\ Finish(t, TRUE, 339)
    /\ sent' = {}
    /\ UNCHANGED <<fn, sup, mon, registry, config_file, op, cur, seen, polls, calls>>

\* Mutant: the already-running return comes after the port clean-up.
start_check2_reclaims(t) ==
    /\ pc[t] = "s_check2"
    /\ \/ /\ prometheus_process = NoProcess
          /\ Finish(t, FALSE, 380)
          /\ sent' = {}
          /\ UNCHANGED proc
       \/ /\ Running
          /\ \E r \in BOOLEAN : kill_processes_on_port(r)
          /\ Finish(t, TRUE, 339)
       \/ /\ prometheus_process # NoProcess
          /\ ~PollIsNone(prometheus_process)
          /\ Goto(t, "s_killport")
          /\ sent' = {}
          /\ UNCHANGED <<ret, line, proc>>
    /\ UNCHANGED <<fn, prometheus_process, mon, registry, config_file, op, cur, seen,
                   polls, calls>>

\* line 337, second operand: the global is loaded again and polled
start_check2(t) ==
    /\ pc[t] = "s_check2"
    /\ \/ /\ prometheus_process = NoProcess          \* AttributeError, line 378
          /\ Finish(t, FALSE, 380)
       \/ /\ Running
          /\ Finish(t, TRUE, 339)
       \/ /\ prometheus_process # NoProcess
          /\ ~PollIsNone(prometheus_process)
          /\ Goto(t, "s_killport")
          /\ UNCHANGED <<ret, line>>
    /\ sent' = {}
    /\ UNCHANGED <<fn, sup, mon, registry, config_file, op, cur, seen, polls, calls>>

\* Mutant: a port that could not be reclaimed makes start_prometheus fail.
start_killport_strict(t) ==
    /\ pc[t] = "s_killport"
    /\ \E r \in BOOLEAN :
           /\ kill_processes_on_port(r)
           /\ IF r THEN /\ Goto(t, "s_fetch")
                        /\ line' = [line EXCEPT ![t] = 342]
                        /\ UNCHANGED ret
                   ELSE Finish(t, FALSE, 343)
    /\ UNCHANGED <<fn, prometheus_process, mon, registry, config_file, op, cur, seen,
                   polls, calls>>

\* lines 341-344: the result only changes what is printed (line 343 is the
\* warning printed for False)
start_killport(t) ==
    /\ pc[t] = "s_killport"
    /\ \E r \in BOOLEAN :
           /\ kill_processes_on_port(r)
           /\ line' = [line EXCEPT ![t] = IF r THEN 342 ELSE 343]
    /\ Goto(t, "s_fetch")
    /\ UNCHANGED <<fn, prometheus_process, mon, registry, config_file, op, ret, cur, seen,
                   polls, calls>>

\* Mutant: start_prometheus goes on to Popen whatever the write returned.
start_write_unchecked(t) ==
    /\ pc[t] = "s_write"
    /\ \/ /\ generate_prometheus_config(cur[t]) # NoDocument
          /\ config_file' = generate_prometheus_config(cur[t])
       \/ UNCHANGED config_file
    /\ Goto(t, "s_spawn")
    /\ sent' = {}
    /\ UNCHANGED <<fn, sup, mon, registry, op, ret, line, cur, seen, polls, calls>>

\* lines 346-349
start_fetch(t) == fetch_services(t, "s_fetch", "s_write")
start_write(t) == write_prometheus_config(t, "s_write", "s_spawn", 349)

\* Mutant: start_prometheus without the except clause of lines 378-380.
start_spawn_uncaught(t) ==
    /\ pc[t] = "s_spawn"
    /\ \/ /\ \E p \in Procs :
                 /\ proc[p] = "unborn"
                 /\ \A q \in Procs : q < p => proc[q] # "unborn"
                 /\ proc' = [proc EXCEPT ![p] = "alive"]
                 /\ prometheus_process' = p
          /\ Goto(t, "s_grace")
       \/ /\ Goto(t, "raised")
          /\ UNCHANGED <<prometheus_process, proc>>
    /\ sent' = {}
    /\ UNCHANGED <<fn, mon, registry, config_file, op, ret, line, cur, seen, polls, calls>>

\* lines 360-365: Popen launches the daemon (or raises), the global is assigned
start_spawn(t) ==
    /\ pc[t] = "s_spawn"
    /\ \/ /\ \E p \in Procs :
                 /\ proc[p] = "unborn"
                 /\ \A q \in Procs : q < p => proc[q] # "unborn"
                 /\ proc' = [proc EXCEPT ![p] = "alive"]
                 /\ prometheus_process' = p
          /\ Goto(t, "s_grace")
          /\ UNCHANGED <<ret, line>>
       \/ /\ Finish(t, FALSE, 380)
          /\ UNCHANGED <<prometheus_process, proc>>
    /\ sent' = {}
    /\ UNCHANGED <<fn, mon, registry, config_file, op, cur, seen, polls, calls>>

\* lines 368-376: after the grace period the global is loaded and polled
start_grace(t) ==
    /\ pc[t] = "s_grace"
    /\ \/ /\ prometheus_process = NoProcess          \* AttributeError
          /\ Finish(t, FALSE, 380)
       \/ /\ Running
          /\ Finish(t, TRUE, 372)
       \/ /\ prometheus_process # NoProcess
          /\ ~PollIsNone(prometheus_process)
          /\ Finish(t, FALSE, 376)
    /\ sent' = {}
    /\ UNCHANGED <<fn, sup, mon, registry, config_file, op, cur, seen, polls, calls>>

start_prometheus(t) ==
    \/ start_check1(t) \/ start_check2(t) \/ start_killport(t)
    \/ start_fetch(t) \/ start_write(t) \/ start_spawn(t) \/ start_grace(t)

(* --------------------------- stop_prometheus -------------------------- *)

\* line 387, first operand
stop_check1(t) ==
    /\ pc[t] = "p_check1"
    /\ \/ /\ prometheus_process = NoProcess
          /\ Finish(t, TRUE, 406)
       \/ /\ prometheus_process # NoProcess
          /\ Goto(t, "p_check2")
          /\ UNCHANGED <<ret, line>>
    /\ sent' = {}
    /\ UNCHANGED <<fn, sup, mon, registry, config_file, op, cur, seen, polls, calls>>

\* Mutant: stop_prometheus testing the handle only, without poll().
stop_check2_no_poll(t) ==
    /\ pc[t] = "p_check2"
    /\ \/ /\ prometheus_process = NoProcess
          /\ Finish(t, FALSE, 410)
       \/ /\ prometheus_process # NoProcess
          /\ Goto(t, "p_term")
          /\ UNCHANGED <<ret, line>>
    /\ sent' = {}
    /\ UNCHANGED <<fn, sup, mon, registry, config_file, op, cur, seen, polls, calls>>

\* line 387, second operand
stop_check2(t) ==
    /\ pc[t] = "p_check2"
    /\ \/ /\ prometheus_process = NoProcess          \* AttributeError
          /\ Finish(t, FALSE, 410)
       \/ /\ Running
          /\ Goto(t, "p_term")
          /\ UNCHANGED <<ret, line>>
       \/ /\ prometheus_process # NoProcess
          /\ ~PollIsNone(prometheus_process)
          /\ Finish(t, TRUE, 406)
    /\ sent' = {}
    /\ UNCHANGED <<fn, sup, mon, registry, config_file, op, cur, seen, polls, calls>>

\* line 389: os.killpg(os.getpgid(pid), SIGTERM). A daemon that has exited
\* since line 387 is a zombie (the signal is accepted) unless another thread's
\* poll() has reaped it (ProcessLookupError).
stop_term(t) ==
    /\ pc[t] = "p_term"
    /\ \/ /\ prometheus_process = NoProcess          \* AttributeError
          /\ Finish(t, FALSE, 410)
          /\ sent' = {}
          /\ UNCHANGED proc
       \/ /\ prometheus_process # NoProcess
          /\ Signal(prometheus_process, "TERM")
          /\ proc' = [proc EXCEPT ![prometheus_process] =
                          IF @ = "alive" THEN "terminating" ELSE @]
          /\ Goto(t, "p_poll")
          /\ UNCHANGED <<ret, line>>
       \/ /\ prometheus_process # NoProcess
          /\ ~PollIsNone(prometheus_process)         \* ProcessLookupError
          /\ Finish(t, FALSE, 410)
          /\ sent' = {}
          /\ UNCHANGED proc
    /\ UNCHANGED <<fn, prometheus_process, mon, registry, config_file, op, cur, seen, polls, calls>>

\* lines 392-395: one iteration of the bounded wait
stop_poll(t) ==
    /\ pc[t] = "p_poll"
    /\ \/ /\ prometheus_process = NoProcess          \* AttributeError
          /\ Finish(t, FALSE, 410)
          /\ UNCHANGED polls
       \/ /\ prometheus_process # NoProcess
          /\ ~PollIsNone(prometheus_process)         \* break
          /\ Goto(t, "p_kill")
          /\ UNCHANGED <<ret, line, polls>>
       \/ /\ Running                                 \* time.sleep(1)
          /\ polls' = [polls EXCEPT ![t] = polls[t] + 1]
          /\ Goto(t, IF polls[t] + 1 = StopPollChecks THEN "p_kill" ELSE "p_poll")
          /\ UNCHANGED <<ret, line>>
    /\ sent' = {}
    /\ UNCHANGED <<fn, sup, mon, registry, config_file, op, cur, seen, calls>>

\* Mutant: SIGKILL is sent without the poll() of line 398.
stop_kill_unconditional(t) ==
    /\ pc[t] = "p_kill"
    /\ prometheus_process # NoProcess
    /\ Signal(prometheus_process, "KILL")
    /\ proc' = [proc EXCEPT ![prometheus_process] = "dead"]
    /\ Goto(t, "p_clear")
    /\ UNCHANGED <<fn, prometheus_process, mon, registry, config_file, op, ret, line, cur,
                   seen, polls, calls>>

\* lines 398-399: SIGKILL to the group if the daemon is still running
stop_kill(t) ==
    /\ pc[t] = "p_kill"
    /\ \/ /\ prometheus_process = NoProcess          \* AttributeError
          /\ Finish(t, FALSE, 410)
          /\ sent' = {}
          /\ UNCHANGED proc
       \/ /\ Running
          /\ Signal(prometheus_process, "KILL")
          /\ proc' = [proc EXCEPT ![prometheus_process] = "dead"]
          /\ Goto(t, "p_clear")
          /\ UNCHANGED <<ret, line>>
       \/ /\ prometheus_process # NoProcess
          /\ ~PollIsNone(prometheus_process)
          /\ Goto(t, "p_clear")
          /\ sent' = {}
          /\ UNCHANGED <<ret, line, proc>>
    /\ UNCHANGED <<fn, prometheus_process, mon, registry, config_file, op, cur, seen, polls, calls>>

\* lines 401-403
stop_clear(t) ==
    /\ pc[t] = "p_clear"
    /\ prometheus_process' = NoProcess
    /\ Finish(t, TRUE, 403)
    /\ sent' = {}
    /\ UNCHANGED <<fn, proc, mon, registry, config_file, op, cur, seen, polls, calls>>

stop_prometheus(t) ==
    \/ stop_check1(t) \/ stop_check2(t) \/ stop_term(t)
    \/ stop_poll(t) \/ stop_kill(t) \/ stop_clear(t)

(* -------------------------- reload_prometheus ------------------------- *)

\* line 417, first operand
reload_check1(t) ==
    /\ pc[t] = "r_check1"
    /\ \/ /\ prometheus_process = NoProcess
          /\ Finish(t, FALSE, 419)
       \/ /\ prometheus_process # NoProcess
          /\ Goto(t, "r_check2")
          /\ UNCHANGED <<ret, line>>
    /\ sent' = {}
    /\ UNCHANGED <<fn, sup, mon, registry, config_file, op, cur, seen, polls, calls>>

\* Mutant: reload_prometheus testing the handle only, without poll().
reload_check2_no_poll(t) ==
    /\ pc[t] = "r_check2"
    /\ \/ /\ prometheus_process = NoProcess
          /\ Finish(t, FALSE, 433)
       \/ /\ prometheus_process # NoProcess
          /\ Goto(t, "r_fetch")
          /\ UNCHANGED <<ret, line>>
    /\ sent' = {}
    /\ UNCHANGED <<fn, sup, mon, registry, config_file, op, cur, seen, polls, calls>>

\* line 417, second operand
reload_check2(t) ==
    /\ pc[t] = "r_check2"
    /\ \/ /\ prometheus_process = NoProcess          \* AttributeError
          /\ Finish(t, FALSE, 433)
       \/ /\ Running
          /\ Goto(t, "r_fetch")
          /\ UNCHANGED <<ret, line>>
       \/ /\ prometheus_process # NoProcess
          /\ ~PollIsNone(prometheus_process)
          /\ Finish(t, FALSE, 419)
    /\ sent' = {}
    /\ UNCHANGED <<fn, sup, mon, registry, config_file, op, cur, seen, polls, calls>>

\* Mutant: reload_prometheus goes on to the signal whatever the write returned.
reload_write_unchecked(t) ==
    /\ pc[t] = "r_write"
    /\ \/ /\ generate_prometheus_config(cur[t]) # NoDocument
          /\ config_file' = generate_prometheus_config(cur[t])
       \/ UNCHANGED config_file
    /\ Goto(t, "r_hup")
    /\ sent' = {}
    /\ UNCHANGED <<fn, sup, mon, registry, op, ret, line, cur, seen, polls, calls>>

\* lines 421-424
reload_fetch(t) == fetch_services(t, "r_fetch", "r_write")
reload_write(t) == write_prometheus_config(t, "r_write", "r_hup", 424)

\* Mutant: reload_prometheus frees the port before it signals the daemon.
reload_hup_reclaims(t) ==
    /\ pc[t] = "r_hup"
    /\ \/ /\ prometheus_process = NoProcess
          /\ Finish(t, FALSE, 433)
          /\ sent' = {}
          /\ UNCHANGED proc
       \/ /\ prometheus_process # NoProcess
          /\ \E r \in BOOLEAN : kill_processes_on_port(r)
          /\ Finish(t, TRUE, 429)
    /\ UNCHANGED <<fn, prometheus_process, mon, registry, config_file, op, cur, seen, polls, calls>>

\* line 427: os.kill(pid, SIGHUP); a zombie accepts the signal, a reaped
\* process raises ProcessLookupError.
reload_hup(t) ==
    /\ pc[t] = "r_hup"
    /\ \/ /\ prometheus_process = NoProcess          \* AttributeError
          /\ Finish(t, FALSE, 433)
          /\ sent' = {}
       \/ /\ prometheus_process # NoProcess
          /\ Signal(prometheus_process, "HUP")
          /\ Finish(t, TRUE, 429)
       \/ /\ prometheus_process # NoProcess
          /\ ~PollIsNone(prometheus_process)         \* ProcessLookupError
          /\ Finish(t, FALSE, 433)
          /\ sent' = {}
    /\ UNCHANGED <<fn, prometheus_process, proc, mon, registry, config_file, op, cur, seen, polls, calls>>

reload_prometheus(t) ==
    \/ reload_check1(t) \/ reload_check2(t)
    \/ reload_fetch(t) \/ reload_write(t) \/ reload_hup(t)

(* -------------------------- change monitor ---------------------------- *)

\* check_for_service_changes, lines 104 and 109: a stored fingerprint that
\* differs from the current one.
HasChanged(previous, current) == previous # None /\ current # previous

\* Mutant: while True
mon_loop_forever(m) ==
    /\ pc[m] = "m_loop"
    /\ Goto(m, "m_fetch")
    /\ sent' = {}
    /\ UNCHANGED <<fn, sup, mon, registry, config_file, locals>>

\* line 122: while monitoring_active
mon_loop(m) ==
    /\ pc[m] = "m_loop"
    /\ Goto(m, IF monitoring_active THEN "m_fetch" ELSE "exited")
    /\ sent' = {}
    /\ UNCHANGED <<fn, sup, mon, registry, config_file, locals>>

\* line 101: current_services = fetch_services()
mon_fetch(m) ==
    /\ pc[m] = "m_fetch"
    /\ \E ln \in FetchFailLines \cup {FetchOkLine} :
           /\ seen' = [seen EXCEPT ![m] = FetchResult(ln, registry)]
           /\ line' = [line EXCEPT ![m] = ln]
    /\ Goto(m, "m_cmp")
    /\ sent' = {}
    /\ UNCHANGED <<fn, sup, mon, registry, config_file, op, ret, cur, polls, calls>>

\* Mutant: the TypeError of line 110 escapes the loop and ends the thread.
mon_cmp_uncaught(m) ==
    /\ pc[m] = "m_cmp"
    /\ LET current_hash == get_services_hash(seen[m]) IN
       \/ /\ last_services_hash = None
          /\ last_services_hash' = current_hash
          /\ Goto(m, "m_sleep")
          /\ line' = [line EXCEPT ![m] = 107]
       \/ /\ HasChanged(last_services_hash, current_hash)
          /\ Goto(m, IF current_hash = None THEN "exited" ELSE "m_store")
          /\ UNCHANGED <<line, last_services_hash>>
       \/ /\ last_services_hash # None
          /\ ~HasChanged(last_services_hash, current_hash)
          /\ Goto(m, "m_sleep")
          /\ line' = [line EXCEPT ![m] = 114]
          /\ UNCHANGED last_services_hash
    /\ sent' = {}
    /\ UNCHANGED <<fn, sup, monitoring_thread, monitoring_active, registry, config_file,
                   op, ret, cur, seen, polls, calls>>

\* Mutant: an empty read is a change like any other (no slicing of None).
mon_cmp_reports_empty(m) ==
    /\ pc[m] = "m_cmp"
    /\ LET current_hash == get_services_hash(seen[m]) IN
       \/ /\ last_services_hash = None
          /\ last_services_hash' = current_hash
          /\ Goto(m, "m_sleep")
          /\ line' = [line EXCEPT ![m] = 107]
       \/ /\ HasChanged(last_services_hash, current_hash)
          /\ Goto(m, "m_store")
          /\ UNCHANGED <<line, last_services_hash>>
       \/ /\ last_services_hash # None
          /\ ~HasChanged(last_services_hash, current_hash)
          /\ Goto(m, "m_sleep")
          /\ line' = [line EXCEPT ![m] = 114]
          /\ UNCHANGED last_services_hash
    /\ sent' = {}
    /\ UNCHANGED <<fn, sup, monitoring_thread, monitoring_active, registry, config_file,
                   op, ret, cur, seen, polls, calls>>

\* Mutant: without the first-check branch of lines 104-107.
mon_cmp_no_baseline(m) ==
    /\ pc[m] = "m_cmp"
    /\ LET current_hash == get_services_hash(seen[m]) IN
       \/ /\ current_hash # last_services_hash
          /\ current_hash = None
          /\ Goto(m, "m_except")
          /\ line' = [line EXCEPT ![m] = 110]
          /\ UNCHANGED last_services_hash
       \/ /\ current_hash # last_services_hash
          /\ current_hash # None
          /\ Goto(m, "m_store")
          /\ UNCHANGED <<line, last_services_hash>>
       \/ /\ current_hash = last_services_hash
          /\ Goto(m, "m_sleep")
          /\ line' = [line EXCEPT ![m] = 114]
          /\ UNCHANGED last_services_hash
    /\ sent' = {}
    /\ UNCHANGED <<fn, sup, monitoring_thread, monitoring_active, registry, config_file,
                   op, ret, cur, seen, polls, calls>>

\* lines 102-114 up to the store of line 111: the first check stores the
\* baseline; the print of line 110 slices both fingerprints and raises
\* TypeError when the current one is None.
mon_cmp(m) ==
    /\ pc[m] = "m_cmp"
    /\ LET current_hash == get_services_hash(seen[m]) IN
       \/ /\ last_services_hash = None
          /\ last_services_hash' = current_hash
          /\ Goto(m, "m_sleep")
          /\ line' = [line EXCEPT ![m] = 107]
       \/ /\ HasChanged(last_services_hash, current_hash)
          /\ current_hash = None
          /\ Goto(m, "m_except")
          /\ line' = [line EXCEPT ![m] = 110]
          /\ UNCHANGED last_services_hash
       \/ /\ HasChanged(last_services_hash, current_hash)
          /\ current_hash # None
          /\ Goto(m, "m_store")
          /\ UNCHANGED <<line, last_services_hash>>
       \/ /\ last_services_hash # None
          /\ ~HasChanged(last_services_hash, current_hash)
          /\ Goto(m, "m_sleep")
          /\ line' = [line EXCEPT ![m] = 114]
          /\ UNCHANGED last_services_hash
    /\ sent' = {}
    /\ UNCHANGED <<fn, sup, monitoring_thread, monitoring_active, registry, config_file,
                   op, ret, cur, seen, polls, calls>>

\* Mutant: the fingerprint is left for a successful reload to store.
mon_store_deferred(m) ==
    /\ pc[m] = "m_store"
    /\ Goto(m, "m_run1")
    /\ line' = [line EXCEPT ![m] = 112]
    /\ sent' = {}
    /\ UNCHANGED <<fn, sup, mon, registry, config_file, op, ret, cur, seen, polls, calls>>

\* lines 111-112: the new fingerprint is stored and the change reported
mon_store(m) ==
    /\ pc[m] = "m_store"
    /\ last_services_hash' = get_services_hash(seen[m])
    /\ Goto(m, "m_run1")
    /\ line' = [line EXCEPT ![m] = 112]
    /\ sent' = {}
    /\ UNCHANGED <<fn, sup, monitoring_thread, monitoring_active, registry, config_file,
                   op, ret, cur, seen, polls, calls>>

\* Mutant: the monitor reloads without asking whether the daemon runs.
mon_run1_always_reloads(m) ==
    /\ pc[m] = "m_run1"
    /\ Goto(m, "r_check1")
    /\ line' = [line EXCEPT ![m] = 131]
    /\ calls' = [calls EXCEPT ![m] = calls[m] + 1]
    /\ sent' = {}
    /\ UNCHANGED <<fn, sup, mon, registry, config_file, op, ret, cur, seen, polls>>

\* line 130, first operand
mon_run1(m) ==
    /\ pc[m] = "m_run1"
    /\ \/ /\ prometheus_process = NoProcess
          /\ Goto(m, "m_sleep")
          /\ line' = [line EXCEPT ![m] = 137]
       \/ /\ prometheus_process # NoProcess
          /\ Goto(m, "m_run2")
          /\ UNCHANGED line
    /\ sent' = {}
    /\ UNCHANGED <<fn, sup, mon, registry, config_file, op, ret, cur, seen, polls, calls>>

\* Mutant: the monitor forgets a daemon it finds dead.
mon_run2_clears(m) ==
    /\ pc[m] = "m_run2"
    /\ \/ /\ prometheus_process = NoProcess
          /\ Goto(m, "m_except")
          /\ line' = [line EXCEPT ![m] = 130]
          /\ UNCHANGED <<calls, prometheus_process>>
       \/ /\ Running
          /\ Goto(m, "r_check1")
          /\ line' = [line EXCEPT ![m] = 131]
          /\ calls' = [calls EXCEPT ![m] = calls[m] + 1]
          /\ UNCHANGED prometheus_process
       \/ /\ prometheus_process # NoProcess
          /\ ~PollIsNone(prometheus_process)
          /\ prometheus_process' = NoProcess
          /\ Goto(m, "m_sleep")
          /\ line' = [line EXCEPT ![m] = 137]
          /\ UNCHANGED calls
    /\ sent' = {}
    /\ UNCHANGED <<fn, proc, mon, registry, config_file, op, ret, cur, seen, polls>>

\* line 130, second operand, and the call of line 131
mon_run2(m) ==
    /\ pc[m] = "m_run2"
    /\ \/ /\ prometheus_process = NoProcess          \* AttributeError
          /\ Goto(m, "m_except")
          /\ line' = [line EXCEPT ![m] = 130]
          /\ UNCHANGED calls
       \/ /\ Running
          /\ Goto(m, "r_check1")
          /\ line' = [line EXCEPT ![m] = 131]
          /\ calls' = [calls EXCEPT ![m] = calls[m] + 1]
       \/ /\ prometheus_process # NoProcess
          /\ ~PollIsNone(prometheus_process)
          /\ Goto(m, "m_sleep")
          /\ line' = [line EXCEPT ![m] = 137]
          /\ UNCHANGED calls
    /\ sent' = {}
    /\ UNCHANGED <<fn, sup, mon, registry, config_file, op, ret, cur, seen, polls>>

\* lines 140 and 144: time.sleep(MONITOR_INTERVAL) returns, in the loop body
\* or in the except clause
mon_sleep(m) ==
    /\ pc[m] \in {"m_sleep", "m_except"}
    /\ Goto(m, "m_loop")
    /\ line' = [line EXCEPT ![m] = IF pc[m] = "m_except" THEN 144 ELSE 0]
    /\ ret' = [ret EXCEPT ![m] = FALSE]
    /\ cur' = [cur EXCEPT ![m] = <<>>]
    /\ seen' = [seen EXCEPT ![m] = <<>>]
    /\ calls' = [calls EXCEPT ![m] = 0]
    /\ sent' = {}
    /\ UNCHANGED <<fn, sup, mon, registry, config_file, op, polls>>

monitor_services(m) ==
    \/ mon_loop(m) \/ mon_fetch(m) \/ mon_cmp(m) \/ mon_store(m)
    \/ mon_run1(m) \/ mon_run2(m) \/ mon_sleep(m)

(* ------------------- start_monitoring, stop_monitoring ---------------- *)

\* lines 150-152
startmon_check(t) ==
    /\ pc[t] = "sm_check"
    /\ \/ /\ IsAlive(monitoring_thread)
          /\ Finish(t, TRUE, 152)
       \/ /\ ~IsAlive(monitoring_thread)
          /\ Goto(t, "sm_set")
          /\ UNCHANGED <<ret, line>>
    /\ sent' = {}
    /\ UNCHANGED <<fn, sup, mon, registry, config_file, op, cur, seen, polls, calls>>

\* line 154
startmon_set(t) ==
    /\ pc[t] = "sm_set"
    /\ monitoring_active' = TRUE
    /\ Goto(t, "sm_spawn")
    /\ sent' = {}
    /\ UNCHANGED <<fn, sup, monitoring_thread, last_services_hash, registry, config_file, locals>>

\* lines 155-157: the thread is created, assigned to the global and started
startmon_spawn(t) ==
    /\ pc[t] = "sm_spawn"
    /\ \E m \in Monitors :
           /\ pc[m] = "unborn"
           /\ \A k \in Monitors : k[2] < m[2] => pc[k] # "unborn"
           /\ monitoring_thread' = m
           /\ pc' = [pc EXCEPT ![t] = "done", ![m] = "m_loop"]
    /\ ret' = [ret EXCEPT ![t] = TRUE]
    /\ line' = [line EXCEPT ![t] = 157]
    /\ sent' = {}
    /\ UNCHANGED <<fn, sup, monitoring_active, last_services_hash, registry, config_file,
                   op, cur, seen, polls, calls>>

start_monitoring(t) == startmon_check(t) \/ startmon_set(t) \/ startmon_spawn(t)

\* lines 163-165
stopmon_flag(t) ==
    /\ pc[t] = "pm_flag"
    /\ \/ /\ monitoring_active
          /\ monitoring_active' = FALSE
          /\ Goto(t, "pm_join")
          /\ UNCHANGED <<ret, line>>
       \/ /\ ~monitoring_active
          /\ Finish(t, TRUE, 163)
          /\ UNCHANGED monitoring_active
    /\ sent' = {}
    /\ UNCHANGED <<fn, sup, monitoring_thread, last_services_hash, registry, config_file,
                   op, cur, seen, polls, calls>>

\* lines 167-170: join(timeout=5) returns when the thread has exited or when
\* the timeout has passed, whichever is first
stopmon_join(t) ==
    /\ pc[t] = "pm_join"
    /\ Finish(t, TRUE, 170)
    /\ sent' = {}
    /\ UNCHANGED <<fn, sup, mon, registry, config_file, op, cur, seen, polls, calls>>

stop_monitoring(t) == stopmon_flag(t) \/ stopmon_join(t)

(* --------------------------- cleanup_on_exit -------------------------- *)

\* line 731, lines 163-165 of stop_monitoring
cleanup_flag(t) ==
    /\ pc[t] = "c_flag"
    /\ monitoring_active' = FALSE
    /\ Goto(t, IF monitoring_active THEN "c_join" ELSE "p_check1")
    /\ sent' = {}
    /\ UNCHANGED <<fn, sup, monitoring_thread, last_services_hash, registry, config_file,
                   locals>>

\* Mutant: cleanup_on_exit without its call of stop_prometheus.
cleanup_join_only(t) ==
    /\ pc[t] = "c_join"
    /\ Finish(t, TRUE, 733)
    /\ sent' = {}
    /\ UNCHANGED <<fn, sup, mon, registry, config_file, op, cur, seen, polls, calls>>

\* line 731, lines 167-170 of stop_monitoring: the join returns when the
\* thread has exited or after 5 seconds; line 732 calls stop_prometheus
cleanup_join(t) ==
    /\ pc[t] = "c_join"
    /\ Goto(t, "p_check1")
    /\ sent' = {}
    /\ UNCHANGED <<fn, sup, mon, registry, config_file, locals>>

\* cleanup_on_exit ends when its stop_prometheus has returned
cleanup_on_exit(t) == cleanup_flag(t) \/ cleanup_join(t) \/ stop_prometheus(t)

(* ---------------------------- environment ----------------------------- *)

\* A launched daemon exits: after SIGTERM, or on its own (a crash, a port or
\* storage conflict).
DaemonExit(p) ==
    /\ PollIsNone(p)
    /\ proc' = [proc EXCEPT ![p] = "dead"]
    /\ sent' = {}
    /\ UNCHANGED <<fn, prometheus_process, mon, registry, config_file, pc, locals>>

\* A process the supervisor did not launch (another Prometheus, any server)
\* binds the listen port.
PortBind(p) ==
    /\ proc[p] = "unborn"
    /\ \A q \in Procs : q < p => proc[q] # "unborn"
    /\ proc' = [proc EXCEPT ![p] = "alive"]
    /\ sent' = {}
    /\ UNCHANGED <<fn, prometheus_process, mon, registry, config_file, pc, locals>>

\* The registry owner inserts or deletes a row of public.services.
RegistryChange(s) ==
    /\ registry' = IF s \in registry THEN registry \ {s} ELSE registry \cup {s}
    /\ sent' = {}
    /\ UNCHANGED <<fn, sup, mon, config_file, pc, locals>>

(* -------------------------- specifications ---------------------------- *)

H1 == <<"h", 1>>

\* Two request handlers race on the supervisor's operations.
Next ==
    \/ \E t \in Handlers : \E o \in SupervisorOps : Call(t, o)
    \/ \E t \in Handlers : Return(t)
    \/ \E t \in Handlers : start_prometheus(t)
    \/ \E t \in Handlers : stop_prometheus(t)
    \/ \E t \in Handlers : reload_prometheus(t)
    \/ \E p \in Procs : DaemonExit(p)

Spec == Init /\ [][Next]_vars

\* One request handler issues the supervisor's operations and kill-port one
\* after the other; daemons exit when they will.
NextSup ==
    \/ \E o \in SupervisorOps \cup {"kill_port"} : Call(H1, o)
    \/ Return(H1)
    \/ start_prometheus(H1)
    \/ stop_prometheus(H1)
    \/ reload_prometheus(H1)
    \/ kill_port(H1)
    \/ \E p \in Procs : DaemonExit(p)

SpecSup == Init /\ [][NextSup]_vars

\* The monitor thread runs beside one request handler that starts and stops
\* the daemon and stops the monitoring, while the registry changes and
\* daemons exit.
NextMon ==
    \/ \E o \in {"start", "stop", "stop_monitoring"} : Call(H1, o)
    \/ Return(H1)
    \/ start_prometheus(H1)
    \/ stop_prometheus(H1)
    \/ stop_monitoring(H1)
    \/ \E m \in Monitors : reload_prometheus(m)
    \/ \E m \in Monitors : monitor_services(m)
    \/ \E p \in Procs : DaemonExit(p)
    \/ \E s \in Universe : RegistryChange(s)

SpecMon == Init /\ [][NextMon]_vars

\* One request handler stops and starts the monitoring beside the monitor
\* threads, while the registry changes; no daemon is started, so line 130
\* never reaches its second operand.
NextRestart ==
    \/ \E o \in {"start_monitoring", "stop_monitoring"} : Call(H1, o)
    \/ Return(H1)
    \/ start_monitoring(H1)
    \/ stop_monitoring(H1)
    \/ \E m \in Monitors : mon_loop(m) \/ mon_fetch(m) \/ mon_cmp(m) \/ mon_store(m)
    \/ \E m \in Monitors : mon_run1(m) \/ mon_sleep(m)
    \/ \E s \in Universe : RegistryChange(s)

SpecRestart == Init /\ [][NextRestart]_vars

\* Two request handlers start and stop the monitoring beside the monitor
\* threads; the registry does not change and no daemon is started, so the
\* loop never gets past the comparison.
NextMonitoring ==
    \/ \E t \in Handlers : \E o \in {"start_monitoring", "stop_monitoring"} : Call(t, o)
    \/ \E t \in Handlers : Return(t)
    \/ \E t \in Handlers : start_monitoring(t)
    \/ \E t \in Handlers : stop_monitoring(t)
    \/ \E m \in Monitors : mon_loop(m) \/ mon_fetch(m) \/ mon_cmp(m) \/ mon_sleep(m)

SpecMonitoring == Init /\ [][NextMonitoring]_vars

\* One caller runs kill_processes_on_port while processes bind the port and
\* exit.
NextPort ==
    \/ Call(H1, "kill_processes_on_port")
    \/ Return(H1)
    \/ kill_processes_on_port_body(H1)
    \/ \E p \in Procs : PortBind(p)
    \/ \E p \in Procs : DaemonExit(p)

SpecPort == Init /\ [][NextPort]_vars

M1 == <<"m", 1>>

\* The main thread serves start requests and then runs cleanup_on_exit (the
\* atexit hook), after which it serves nothing; the monitor thread polls a
\* changing registry all the while.
NextExit ==
    \/ \E o \in {"start", "cleanup_on_exit"} : Call(H1, o)
    \/ op[H1] = "start" /\ Return(H1)
    \/ op[H1] = "start" /\ start_prometheus(H1)
    \/ op[H1] = "cleanup_on_exit" /\ cleanup_on_exit(H1)
    \/ monitor_services(M1)
    \/ reload_prometheus(M1)
    \/ \E p \in Procs : DaemonExit(p)
    \/ \E s \in Universe : RegistryChange(s)

SpecExit == Init /\ [][NextExit]_vars

\* The step of thread t reads the registry without an error (line 77) and
\* writes the document it has generated without an error (line 259).
Succeeds(t) ==
    /\ line'[t] \notin FetchFailLines
    /\ (pc[t] \in {"s_write", "r_write"} /\ generate_prometheus_config(cur[t]) # NoDocument)
           => config_file' = generate_prometheus_config(cur[t])

\* The steps of the monitor thread started by __main__, and of a request
\* handler that starts the daemon.
MonitorStep == (monitor_services(M1) \/ reload_prometheus(M1)) /\ Succeeds(M1)
StartStep == start_prometheus(H1) /\ Succeeds(H1)

\* The monitor thread polls a registry that changes while one request
\* handler starts the daemon; no read or write fails, the daemon is not
\* stopped and does not exit.
NextLive ==
    \/ Call(H1, "start")
    \/ Return(H1)
    \/ StartStep
    \/ MonitorStep
    \/ \E s \in Universe : RegistryChange(s)

\* A thread that can take a step takes one: the sleep of lines 140 and 144
\* returns, the handler's calls return.
SpecLive ==
    /\ Init /\ [][NextLive]_vars
    /\ WF_vars(MonitorStep)
    /\ WF_vars(StartStep \/ Return(H1))

\* The orders in which a table may store a set of rows.
Perms(S) ==
    {f \in [1..Cardinality(S) -> S] : \A i, j \in 1..Cardinality(S) : f[i] = f[j] => i = j}
Lists == UNION {Perms(S) : S \in SUBSET Catalog}
Range(seq) == {seq[i] : i \in 1..Len(seq)}

\* extract_target_from_url(url) applied to a metric_url.
call_extract_target_from_url(url) ==
    /\ args = NoCall
    /\ args' = <<"extract_target_from_url", url>>
    /\ returned' = extract_target_from_url(url)
    /\ UNCHANGED <<sup, sent, mon, registry, config_file, pc, locals>>

\* get_services_hash(services) applied to a list of services.
call_get_services_hash(services) ==
    /\ args = NoCall
    /\ args' = <<"get_services_hash", services>>
    /\ returned' = get_services_hash(services)
    /\ UNCHANGED <<sup, sent, mon, registry, config_file, pc, locals>>

\* generate_prometheus_config() with a registry that stores its rows in the
\* order heap: the document of the rows its fetch_services() reads.
call_generate_prometheus_config(heap) ==
    /\ args = NoCall
    /\ args' = <<"generate_prometheus_config", heap>>
    /\ returned' = generate_prometheus_config(OrderBy(heap))
    /\ UNCHANGED <<sup, sent, mon, registry, config_file, pc, locals>>

\* The functions of the synthesizer and of the change detector, each applied
\* once to one argument.
NextFn ==
    \/ \E url \in Urls : call_extract_target_from_url(url)
    \/ \E services \in Lists : call_get_services_hash(services)
    \/ \E heap \in Lists : call_generate_prometheus_config(heap)

SpecFn == Init /\ [][NextFn]_vars

(* ------------------------------ claims -------------------------------- *)

StartPcs == {"s_check1", "s_check2", "s_killport", "s_fetch", "s_write", "s_spawn", "s_grace"}
StopPcs == {"p_check1", "p_check2", "p_term", "p_poll", "p_kill", "p_clear"}
ReloadPcs == {"r_check1", "r_check2", "r_fetch", "r_write", "r_hup"}
ReloadReturnLines == {419, 424, 429, 433}

\* The launched daemons that are alive.
Live == {p \in Procs : PollIsNone(p)}

\* C1: called while the tracked daemon is alive (a second start with no stop
\* in between), start_prometheus returns True at once, launches no process and
\* leaves the handle on the first call's process; over sequential calls there
\* is never a second live daemon, and a live daemon is the tracked one.
C1_SecondStartIsNoop ==
    /\ [](Cardinality(Live) <= 1 /\ \A p \in Live : prometheus_process = p)
    /\ [][\A t \in Handlers :
            (op[t] = "start" /\ pc[t] \in {"s_check1", "s_check2"} /\ Running
                /\ pc'[t] # pc[t])
            => /\ pc'[t] \in {"s_check2", "done"}
               /\ pc'[t] = "done" => ret'[t] = TRUE
               /\ sent' = {}
               /\ UNCHANGED <<prometheus_process, proc, config_file>>]_vars

\* A start that returned at line 339 with the daemon still running.
C1_Witness ==
    /\ pc[H1] = "done" /\ op[H1] = "start" /\ line[H1] = 339
    /\ ret[H1] /\ Running

\* C2: under every interleaving of start_prometheus() calls of concurrent
\* request handlers, at most one launched daemon is alive and every live
\* launched daemon is the one prometheus_process refers to.
C2_OneLiveTrackedDaemon ==
    \A p \in Procs, q \in Procs :
        PollIsNone(p) /\ PollIsNone(q) => p = q /\ prometheus_process = p

\* C3: at most one of start_prometheus, stop_prometheus and reload_prometheus
\* is between its entry and its return.
C3_OneSupervisorCallAtATime ==
    Cardinality({t \in Threads : pc[t] \in StartPcs \cup StopPcs \cup ReloadPcs}) <= 1

C6_ChangeIsInequality ==
    [][\A m \in Monitors :
         (pc[m] = "m_cmp" /\ pc'[m] # pc[m])
         => IF last_services_hash = None
                \/ get_services_hash(seen[m]) = last_services_hash
            THEN pc'[m] = "m_sleep"
            ELSE pc'[m] = "m_store"]_vars

AfterFetch(t) ==
    CASE pc[t] \in {"s_write", "r_write"} -> {cur[t]}
      [] pc[t] = "m_cmp" -> {seen[t]}
      [] OTHER -> {}

\* C7 as stated: what fetch_services hands its caller after a connection or
\* query failure differs from what it hands back after a successful read of
\* an empty registry.
C7_FailureIsDistinguishable ==
    \A t \in Threads :
        line[t] \in FetchFailLines => \A result \in AfterFetch(t) : result # Rows({})

\* C7, amended: fetch_services raises nothing; a connection or query failure
\* is returned as the empty list, the value of a successful read of an empty
\* registry, and a successful read returns the registry's rows in
\* (organization_id, service_id) order.
C7_FailureIsEmptyList ==
    [][\A t \in Threads :
         (pc[t] \in {"s_fetch", "r_fetch", "m_fetch"} /\ pc'[t] # pc[t])
         => /\ pc'[t] \in {"s_write", "r_write", "m_cmp"}
            /\ line'[t] \in FetchFailLines \cup {FetchOkLine}
            /\ \A result \in AfterFetch(t)' :
                   result = IF line'[t] \in FetchFailLines THEN <<>> ELSE Rows(registry)]_vars

\* A failed read of a non-empty registry, held by its caller as [].
C7_Witness ==
    \E t \in Threads :
        /\ pc[t] \in {"s_write", "r_write", "m_cmp"}
        /\ line[t] \in FetchFailLines
        /\ AfterFetch(t) = {<<>>}
        /\ registry # {}

\* C8: the monitor thread ends only at the loop test of line 122 with
\* monitoring_active false, which only stop_monitoring makes it; an exception
\* of a cycle ends in the except clause, whose sleep leads back to the loop test.
C8_LoopEndsOnlyByStop ==
    [][/\ \A m \in Monitors :
            /\ (pc'[m] = "exited" /\ pc[m] # "exited")
                   => pc[m] = "m_loop" /\ ~monitoring_active
            /\ (pc[m] = "m_except" /\ pc'[m] # pc[m])
                   => pc'[m] = "m_loop" /\ line'[m] = 144
            /\ (pc[m] = "m_cmp" /\ pc'[m] # pc[m])
                   => pc'[m] \in {"m_sleep", "m_store", "m_except"}
       /\ (monitoring_active /\ ~monitoring_active')
              => \E t \in Handlers : op[t] = "stop_monitoring" /\ pc[t] = "pm_flag"]_vars

\* After an exception and the sleep of the except clause, the thread has
\* begun another cycle.
C8_Witness ==
    \E m \in Monitors : pc[m] = "m_fetch" /\ line[m] = 144

\* C9: when start_monitoring() has returned (after a stop_monitoring(), at
\* any delay), a live loop thread runs with monitoring_active true.
C9_StartMonitoringRestarts ==
    \A t \in Handlers :
        pc[t] = "done" /\ op[t] = "start_monitoring"
            => monitoring_active /\ IsAlive(monitoring_thread)

\* C10: with no process tracked as alive (no handle, or a handle whose
\* process has exited), stop_prometheus returns True, sends no signal and
\* leaves the handle, the processes and the configuration file as they were.
C10_StopAbsentIsNoop ==
    [][\A t \in Handlers :
         (op[t] = "stop" /\ pc[t] \in {"p_check1", "p_check2"} /\ ~Running
             /\ pc'[t] # pc[t])
         => /\ pc'[t] \in {"p_check2", "done"}
            /\ pc'[t] = "done" => ret'[t] = TRUE /\ line'[t] = 406
            /\ sent' = {}
            /\ UNCHANGED <<prometheus_process, proc, config_file, mon>>]_vars

\* A stop that returned at line 406 on a handle whose process had exited.
C10_Witness ==
    /\ pc[H1] = "done" /\ op[H1] = "stop" /\ line[H1] = 406 /\ ret[H1]
    /\ prometheus_process # NoProcess /\ ~Running

\* C11: when start_prometheus has returned False (no document, write error,
\* spawn error, or a daemon that exited within the grace period), no process
\* handle is tracked.
C11_FailedStartLeavesNoHandle ==
    \A t \in Handlers :
        pc[t] = "done" /\ op[t] = "start" /\ ~ret[t] => prometheus_process = NoProcess

\* C12: a stop_prometheus that has passed the check of line 387 on a running
\* daemon returns, with True or with False, with prometheus_process cleared.
C12_StopClearsHandle ==
    [][\A t \in Handlers :
         (op[t] = "stop" /\ pc[t] \in {"p_term", "p_poll", "p_kill", "p_clear"}
             /\ pc'[t] = "done")
         => prometheus_process' = NoProcess]_vars

\* C13: reload_prometheus called with no handle, or with a handle whose
\* process has exited, returns False at line 419, writes no configuration
\* file and sends no signal.
C13_ReloadAbsentFails ==
    [][\A t \in Handlers :
         (op[t] = "reload" /\ pc[t] \in {"r_check1", "r_check2"} /\ ~Running
             /\ pc'[t] # pc[t])
         => /\ pc'[t] \in {"r_check2", "done"}
            /\ pc'[t] = "done" => ret'[t] = FALSE /\ line'[t] = 419
            /\ sent' = {}
            /\ UNCHANGED <<prometheus_process, proc, config_file>>]_vars

\* A reload that returned False at line 419 on the handle of an exited process.
C13_Witness ==
    /\ pc[H1] = "done" /\ op[H1] = "reload" /\ line[H1] = 419 /\ ~ret[H1]
    /\ prometheus_process # NoProcess /\ ~Running

\* C14: when the registry read yields no services, generate_prometheus_config
\* returns no document, write_prometheus_config returns False and the
\* configuration file is as it was before the start or the reload, which
\* returns False without launching or signalling anything.
C14_EmptyReadKeepsFile ==
    /\ generate_prometheus_config(<<>>) = NoDocument
    /\ [][\A t \in Handlers :
            (pc[t] \in {"s_write", "r_write"} /\ cur[t] = <<>> /\ pc'[t] # pc[t])
            => /\ pc'[t] = "done" /\ ret'[t] = FALSE
               /\ line'[t] = (IF pc[t] = "s_write" THEN 349 ELSE 424)
               /\ sent' = {}
               /\ UNCHANGED <<config_file, prometheus_process, proc>>]_vars

\* A start that failed on an empty read with the earlier document still in
\* the file.
C14_Witness ==
    /\ pc[H1] = "done" /\ op[H1] = "start" /\ line[H1] = 349 /\ ~ret[H1]
    /\ cur[H1] = <<>> /\ config_file # NoDocument

\* C20: on a running daemon stop_prometheus sends SIGTERM to the daemon's
\* process group first (line 389), waits through at most StopPollChecks polls
\* (lines 392-395), and sends SIGKILL to the group (line 399) only to a
\* daemon that has had the SIGTERM and that the poll of line 398 finds
\* running; a daemon found to have exited gets no SIGKILL.
C20_TermThenBoundedWaitThenKill ==
    /\ [](\A t \in Handlers : polls[t] <= StopPollChecks)
    /\ [][\A t \in Handlers :
            (op[t] = "stop" /\ pc[t] \in StopPcs
                /\ (pc'[t] # pc[t] \/ polls'[t] # polls[t]))
            => /\ sent' \subseteq {<<prometheus_process, "TERM">>, <<prometheus_process, "KILL">>}
               /\ <<prometheus_process, "TERM">> \in sent'
                      => pc[t] = "p_term" /\ pc'[t] = "p_poll" /\ polls[t] = 0
               /\ (pc[t] = "p_term" /\ pc'[t] = "p_poll")
                      => sent' = {<<prometheus_process, "TERM">>}
               /\ pc'[t] = "p_poll" => pc[t] \in {"p_term", "p_poll"}
               /\ (pc[t] = "p_poll" /\ pc'[t] = "p_poll")
                      => Running /\ polls'[t] = polls[t] + 1 /\ polls'[t] < StopPollChecks
               /\ pc'[t] = "p_kill"
                      => pc[t] = "p_poll" /\ (~Running \/ polls'[t] = StopPollChecks)
               /\ <<prometheus_process, "KILL">> \in sent'
                      => /\ pc[t] = "p_kill"
                         /\ proc[prometheus_process] = "terminating"
               /\ (pc[t] = "p_kill" /\ ~Running) => sent' = {}]_vars

\* The daemon outlived the SIGTERM and all the polls, and has been sent SIGKILL.
C20_Witness ==
    /\ pc[H1] = "p_clear" /\ op[H1] = "stop" /\ polls[H1] = StopPollChecks
    /\ prometheus_process # NoProcess
    /\ sent = {<<prometheus_process, "KILL">>}

Applied(f) == args # NoCall /\ args[1] = f

\* The (service_id, metric_url, organization_id, name) tuples of a list.
TuplesIn(services) ==
    {<<services[i].service_id, services[i].metric_url,
       services[i].organization_id, services[i].name>> : i \in 1..Len(services)}

\* C15: get_services_hash gives a list the fingerprint of every list that
\* holds the same tuples in another order, and of no list whose tuples differ.
C15_FingerprintOfTupleSet ==
    Applied("get_services_hash") =>
        \A other \in Lists :
            (TuplesIn(other) = TuplesIn(args[2])) <=> (get_services_hash(other) = returned)

\* A list of three or more services that is not in service_id order.
C15_Witness ==
    /\ Applied("get_services_hash") /\ returned # None
    /\ Len(args[2]) >= 3
    /\ args[2][1].service_id > args[2][2].service_id

\* The rows of organization o and the organizations of a set of rows.
RowsOf(S, o) == {r \in S : r.organization_id = o}
OrgsOf(S) == {r.organization_id : r \in S}
\* The k-th row of organization o by service_id.
NthOf(S, o, k) ==
    CHOOSE r \in RowsOf(S, o) :
        Cardinality({q \in RowsOf(S, o) : q.service_id < r.service_id}) = k - 1

\* C16: the document is the same for every order in which the table stores
\* the same rows; after the self-monitoring job the organizations' jobs come
\* in first-seen order of the rows read, which is ascending organization_id,
\* and each job's targets are those of the organization's rows in service_id
\* order.
C16_DocumentOfTargetSet ==
    (Applied("generate_prometheus_config") /\ args[2] # <<>>) =>
        LET S == Range(args[2]) IN
        /\ \A heap \in Perms(S) : generate_prometheus_config(OrderBy(heap)) = returned
        /\ OrderBy(args[2]) = Rows(S)
        /\ Len(returned) = 1 + Cardinality(OrgsOf(S))
        /\ \A i \in 2..Len(returned) : \E o \in OrgsOf(S) :
               /\ returned[i].job_name = <<"org_", <<"str", o>>>>
               /\ Cardinality({x \in OrgsOf(S) : x < o}) = i - 2
               /\ Len(returned[i].targets) = Cardinality(RowsOf(S, o))
               /\ \A k \in 1..Len(returned[i].targets) :
                      returned[i].targets[k]
                          = extract_target_from_url(NthOf(S, o, k).metric_url)

\* Rows of several organizations, stored neither in organization nor in
\* service_id order, with two rows of one organization.
C16_Witness ==
    /\ Applied("generate_prometheus_config") /\ Len(returned) >= 3
    /\ args[2] # Rows(Range(args[2]))
    /\ \E i \in 2..Len(returned) : Len(returned[i].targets) >= 2
    /\ args[2][1].service_id > args[2][2].service_id

\* C17: the document of a non-empty target set has one job more than there
\* are organizations; each organization t has exactly one job, named org_<t>
\* and labelled organization_id = str(t), whose targets are the resolved
\* addresses of the services of t, one for each, and of no other service.
C17_OneJobPerOrganization ==
    (Applied("generate_prometheus_config") /\ args[2] # <<>>) =>
        LET S == Range(args[2])
            JobsOf(o) == {i \in 1..Len(returned) :
                             returned[i].job_name = <<"org_", <<"str", o>>>>}
        IN  /\ Len(returned) = 1 + Cardinality(OrgsOf(S))
            /\ \A o \in OrgsOf(S) :
                   /\ Cardinality(JobsOf(o)) = 1
                   /\ \A i \in JobsOf(o) :
                          /\ returned[i].labels = {<<"organization_id", <<"str", o>>>>}
                          /\ Len(returned[i].targets) = Cardinality(RowsOf(S, o))
                          /\ \A r \in RowsOf(S, o) : \E k \in 1..Len(returned[i].targets) :
                                 returned[i].targets[k] = extract_target_from_url(r.metric_url)
                          /\ \A k \in 1..Len(returned[i].targets) : \E r \in RowsOf(S, o) :
                                 returned[i].targets[k] = extract_target_from_url(r.metric_url)

\* The document of all the rows: three organizations, four jobs.
C17_Witness ==
    /\ Applied("generate_prometheus_config")
    /\ Cardinality(OrgsOf(Range(args[2]))) = 3
    /\ Len(returned) = 4

\* C18: the first job of every document generate_prometheus_config returns
\* is the self-monitoring job "prometheus", whose only target is
\* localhost:PROMETHEUS_PORT.
C18_SelfJobFirst ==
    (Applied("generate_prometheus_config") /\ returned # NoDocument) =>
        /\ returned[1].job_name = <<"prometheus">>
        /\ returned[1].targets = <<<<"host:port", "localhost", PROMETHEUS_PORT>>>>
        /\ \A i \in 2..Len(returned) : returned[i].job_name # <<"prometheus">>

\* A document with the jobs of two organizations or more after the first job.
C18_Witness ==
    /\ Applied("generate_prometheus_config") /\ returned # NoDocument
    /\ Len(returned) >= 3 /\ returned[1].labels = {}

IsNumber(text) == text # <<>> /\ \A i \in 1..Len(text) : text[i] \in Digits

\* host:443 for https, host:80 for http, the bare host for another scheme
DefaultFor(url) ==
    IF Lower(url.scheme) = "https" THEN <<"host:port", Lower(url.host), 443>>
    ELSE IF Lower(url.scheme) = "http" THEN <<"host:port", Lower(url.host), 80>>
    ELSE <<"host", Lower(url.host)>>

\* C19 as stated: a URL (scheme://host...) with an explicit port resolves to host:port with
\* that port; one without a port to host:443 (https), host:80 (http) or the
\* bare host (another scheme).
C19_ResolvesPortThenScheme ==
    (Applied("extract_target_from_url") /\ ~HostnameIsNone(args[2])) =>
        LET url == args[2] IN
        IF url.port = <<>> THEN returned = DefaultFor(url)
        ELSE /\ returned[1] = "host:port"
             /\ returned[2] = Lower(url.host)
             /\ IsNumber(url.port) => returned[3] = ToInt(url.port)

\* C19, amended: for a URL scheme://host..., a port from 1 to 65535 gives
\* host:port; a URL without a port, or with port 0, gives host:443 (https), host:80 (http) or the bare
\* host (another scheme); a port that is no number or exceeds 65535 gives
\* the URL as it was passed; the host and the scheme are taken lower-cased.
C19_ResolvesUsablePortThenScheme ==
    (Applied("extract_target_from_url") /\ ~HostnameIsNone(args[2])) =>
        LET url == args[2] IN
        IF url.port = <<>> THEN returned = DefaultFor(url)
        ELSE IF ~IsNumber(url.port) THEN returned = <<"url", url>>
        ELSE IF ToInt(url.port) > 65535 THEN returned = <<"url", url>>
        ELSE IF ToInt(url.port) = 0 THEN returned = DefaultFor(url)
        ELSE returned = <<"host:port", Lower(url.host), ToInt(url.port)>>

\* http://host:0/... has resolved to host:80.
C19_Witness ==
    /\ Applied("extract_target_from_url")
    /\ args[2].port = <<0>> /\ Lower(args[2].scheme) = "http"
    /\ returned = <<"host:port", Lower(args[2].host), 80>>

\* C21: reload_prometheus sends SIGHUP only from line 427, which it reaches
\* only by a write_prometheus_config of the same call that has put the
\* regenerated document in the file; when no document is generated or the
\* write fails, the call returns False at line 424 and sends nothing.
C21_SignalAfterSuccessfulWrite ==
    [][\A t \in Handlers :
         (op[t] = "reload" /\ pc[t] \in ReloadPcs /\ pc'[t] # pc[t])
         => /\ sent' # {} => pc[t] = "r_hup" /\ sent' = {<<prometheus_process, "HUP">>}
            /\ pc'[t] = "r_hup"
                   => /\ pc[t] = "r_write"
                      /\ cur[t] # <<>>
                      /\ config_file' = generate_prometheus_config(cur[t])
            /\ (pc[t] = "r_write" /\ pc'[t] # "r_hup")
                   => /\ pc'[t] = "done" /\ ret'[t] = FALSE /\ line'[t] = 424
                      /\ UNCHANGED config_file
            /\ pc'[t] = "r_write" => pc[t] = "r_fetch"]_vars

\* A reload that has written the document of its own read and sent SIGHUP.
C21_Witness ==
    /\ pc[H1] = "done" /\ op[H1] = "reload" /\ line[H1] = 429 /\ ret[H1]
    /\ cur[H1] # <<>> /\ config_file = generate_prometheus_config(cur[H1])
    /\ sent = {<<prometheus_process, "HUP">>}

\* C22: under every interleaving of reload_prometheus with stop_prometheus,
\* SIGHUP never goes to a daemon to which stop_prometheus has already sent
\* SIGTERM.
C22_NoReloadSignalAfterTerm ==
    [][\A p \in Procs : <<p, "HUP">> \in sent' => proc[p] # "terminating"]_vars

\* C23: at most one thread is inside write_prometheus_config, between the
\* registry read of its synthesis and the end of its write of the file.
C23_OneConfigWriteAtATime ==
    Cardinality({t \in Threads : pc[t] \in {"s_write", "r_write"}}) <= 1

\* C26: start_prometheus goes on from the port reclaimer to the configuration
\* generation whether kill_processes_on_port returned True or False (the
\* warning of line 343): that step never returns from start_prometheus, and
\* a start returns False only from the lines 349, 376 and 380.
C26_PortReclaimFailureDoesNotBlock ==
    /\ [](\A t \in Handlers :
            pc[t] = "done" /\ op[t] = "start" /\ ~ret[t] => line[t] \in {349, 376, 380})
    /\ [][\A t \in Handlers :
            (op[t] = "start" /\ pc[t] = "s_killport" /\ pc'[t] # pc[t])
            => /\ pc'[t] = "s_fetch"
               /\ line'[t] \in {342, 343}
               /\ UNCHANGED <<ret, prometheus_process, config_file>>]_vars

\* The port could not be reclaimed and start_prometheus is about to read the
\* registry for the configuration.
C26_Witness ==
    pc[H1] = "s_fetch" /\ op[H1] = "start" /\ line[H1] = 343

\* C27: a start_prometheus that launches the daemon has called the port
\* reclaimer, then read the registry and written its document to the file,
\* then called Popen, in that order; with no document or a failed write it
\* returns False at line 349 and no process is launched.
C27_ReclaimThenWriteThenSpawn ==
    [][/\ \A t \in Handlers :
            (op[t] = "start" /\ pc'[t] # pc[t]) =>
                /\ pc'[t] = "s_fetch"
                       => pc[t] = "s_killport" /\ line'[t] \in {342, 343}
                /\ pc'[t] = "s_write"
                       => pc[t] = "s_fetch" /\ cur'[t] \in {Rows(registry), <<>>}
                /\ pc'[t] = "s_spawn"
                       => /\ pc[t] = "s_write"
                          /\ cur[t] = Rows(registry) /\ cur[t] # <<>>
                          /\ config_file' = generate_prometheus_config(Rows(registry))
                          /\ UNCHANGED <<prometheus_process, proc>>
                /\ (pc[t] = "s_write" /\ pc'[t] # "s_spawn")
                       => /\ pc'[t] = "done" /\ ret'[t] = FALSE /\ line'[t] = 349
                          /\ UNCHANGED <<prometheus_process, proc, config_file>>
       /\ \A p \in Procs :
            (proc[p] = "unborn" /\ proc'[p] # "unborn")
                => \E t \in Handlers :
                      /\ op[t] = "start" /\ pc[t] = "s_spawn" /\ pc'[t] = "s_grace"
                      /\ config_file = generate_prometheus_config(cur[t])
                      /\ prometheus_process' = p]_vars

\* The daemon has just been launched by a start whose document of the
\* registry is in the file.
C27_Witness ==
    /\ pc[H1] = "s_grace" /\ op[H1] = "start" /\ Running
    /\ registry # {} /\ cur[H1] = Rows(registry)
    /\ config_file = generate_prometheus_config(cur[H1])

\* C28: start_prometheus on a running daemon does nothing but return True at
\* line 339: it does not reach the port reclaimer (no signal is sent, no
\* process changes), does not read the registry or write the configuration
\* file, and leaves prometheus_process as it is.
C28_StartOnRunningIsPureNoop ==
    /\ [](\A t \in Handlers :
            pc[t] = "done" /\ op[t] = "start" /\ line[t] = 339
                => ret[t] /\ sent = {} /\ cur[t] = <<>>)
    /\ [][\A t \in Handlers :
            (op[t] = "start" /\ pc[t] \in {"s_check1", "s_check2"} /\ Running
                /\ pc'[t] # pc[t])
            => /\ \/ pc[t] = "s_check1" /\ pc'[t] = "s_check2" /\ UNCHANGED <<ret, line>>
                  \/ pc[t] = "s_check2" /\ pc'[t] = "done" /\ line'[t] = 339
               /\ sent' = {}
               /\ UNCHANGED <<prometheus_process, proc, config_file, registry, cur>>]_vars

\* A start has returned at line 339 on a running daemon whose configuration
\* file was written by the start that launched it.
C28_Witness ==
    /\ pc[H1] = "done" /\ op[H1] = "start" /\ line[H1] = 339 /\ ret[H1]
    /\ Running /\ proc[prometheus_process] = "alive"
    /\ config_file = generate_prometheus_config(Rows(registry))
    /\ registry # {} /\ sent = {}

\* C29: no step of reload_prometheus calls the port reclaimer or sends a
\* termination or kill signal: the only signal of a reload is SIGHUP to the
\* tracked daemon, the processes on the listen port and prometheus_process
\* are the same after each of its steps, and a running daemon is still
\* running.
C29_ReloadKillsNothing ==
    [][\A t \in Handlers :
         (op[t] = "reload" /\ pc[t] \in ReloadPcs /\ pc'[t] # pc[t])
         => /\ sent' \subseteq {<<prometheus_process, "HUP">>}
            /\ \A p \in Procs : <<p, "TERM">> \notin sent' /\ <<p, "KILL">> \notin sent'
            /\ UNCHANGED <<prometheus_process, proc>>
            /\ OnPort' = OnPort
            /\ Running => Running'
            /\ pc'[t] \in ReloadPcs \cup {"done"}]_vars

\* A reload has signalled the running daemon, which is still the only
\* process on the port.
C29_Witness ==
    /\ pc[H1] = "done" /\ op[H1] = "reload" /\ line[H1] = 429
    /\ Running /\ proc[prometheus_process] = "alive"
    /\ OnPort = {prometheus_process}
    /\ sent = {<<prometheus_process, "HUP">>}

\* The return lines of the three supervisor operations and the ones that
\* report a failure.
SupervisorReturnLines ==
    [start |-> {339, 349, 372, 376, 380}, stop |-> {403, 406, 410},
     reload |-> {419, 424, 429, 433}]
FailureLines == {349, 376, 380, 410, 419, 424, 433}

\* The position of a step in its operation's body.
Rank(p) ==
    CASE p \in {"s_check1", "p_check1", "r_check1"} -> 1
      [] p \in {"s_check2", "p_check2", "r_check2"} -> 2
      [] p \in {"s_killport", "p_term", "r_fetch"} -> 3
      [] p \in {"s_fetch", "p_poll", "r_write"} -> 4
      [] p \in {"s_write", "p_kill", "r_hup"} -> 5
      [] p \in {"s_spawn", "p_clear"} -> 6
      [] p = "s_grace" -> 7
      [] p = "done" -> 8
      [] OTHER -> 0

\* C30: start_prometheus, stop_prometheus and reload_prometheus always end in
\* a return, never in an exception: every step of a call leads to a later
\* step of the same body or to a return, a return after an error reports
\* False, and no step goes back to one already done (the only repetition is
\* the bounded wait of stop_prometheus).
C30_ErrorsBecomeFailureReturns ==
    /\ [](\A t \in Handlers :
            op[t] \in SupervisorOps =>
                /\ pc[t] \in StartPcs \cup StopPcs \cup ReloadPcs \cup {"done"}
                /\ pc[t] = "done" =>
                      /\ line[t] \in SupervisorReturnLines[op[t]]
                      /\ ret[t] = (line[t] \notin FailureLines)
                /\ polls[t] <= StopPollChecks)
    /\ [][\A t \in Handlers :
            (op[t] \in SupervisorOps /\ pc[t] # "done" /\ pc'[t] # pc[t])
                => Rank(pc'[t]) > Rank(pc[t])]_vars
    /\ [][\A t \in Handlers :
            (op[t] \in SupervisorOps /\ pc[t] # "done" /\ pc'[t] = pc[t]
                /\ polls'[t] # polls[t])
                => pc[t] = "p_poll" /\ polls'[t] = polls[t] + 1]_vars

\* Popen raised after the configuration was written: start_prometheus has
\* returned False from its except clause.
C30_Witness ==
    /\ pc[H1] = "done" /\ op[H1] = "start" /\ line[H1] = 380 /\ ~ret[H1]
    /\ cur[H1] # <<>> /\ config_file = generate_prometheus_config(cur[H1])
    /\ prometheus_process = NoProcess

\* C24: under every interleaving of start_monitoring() and stop_monitoring()
\* calls of the request handlers, at most one thread is alive in
\* monitor_services.
C24_OneMonitorLoop ==
    Cardinality({m \in Monitors : IsAlive(m)}) <= 1

\* C25: with the daemon running and the monitor thread polling, a registry
\* that changes to a non-empty set S of services and stays there, while no
\* read and no write fails, leads to a configuration file that holds the
\* document of S.
C25_ChangeReachesDaemon ==
    \A S \in (SUBSET Universe) \ {{}} :
        <>[](registry = S)
            => ((Running /\ registry # S)
                    ~> (config_file = generate_prometheus_config(Rows(S))))

KillPcs == {"k_lsof", "k_netstat", "k_term", "k_wait", "k_check", "k_force", "k_release"}

\* C31: kill_processes_on_port returns True only when no process it found on
\* the port is still running.
C31_TrueOnlyIfPortFree ==
    \A t \in Handlers :
        (pc[t] = "done" /\ op[t] = "kill_processes_on_port" /\ ret[t] /\ line[t] = 305)
            => \A i \in 1..Len(cur[t]) : ~PollIsNone(cur[t][i])

C33_NoLookupToolReturnsFalse ==
    \A t \in Handlers :
        (pc[t] = "done" /\ op[t] = "kill_processes_on_port"
            /\ line[t] \in {320, 323, 326})
            => ~ret[t]

\* C33 (amended): kill_processes_on_port raises nothing; a lookup timeout
\* (line 312) and any other error (lines 326, 329) return False; without lsof
\* it returns False when netstat shows the port in use (line 320) and True
\* when netstat does not show it (line 323).
C33_SoftFailureUnlessProbeSaysFree ==
    /\ [](\A t \in Handlers :
            op[t] = "kill_processes_on_port" =>
                /\ pc[t] \in KillPcs \cup {"done"}
                /\ pc[t] = "done" =>
                      /\ line[t] \in {305, 308, 312, 320, 323, 326, 329}
                      /\ ret[t] = (line[t] \in {305, 308, 323}))
    /\ [][\A t \in Handlers :
            (op[t] = "kill_processes_on_port" /\ pc[t] = "k_netstat" /\ pc'[t] # pc[t])
            => /\ pc'[t] = "done"
               /\ ret'[t] => OnPort = {}
               /\ sent' = {} /\ UNCHANGED proc]_vars

\* Without lsof, netstat did not show the port and kill_processes_on_port
\* returned True.
C33_Witness ==
    /\ pc[H1] = "done" /\ op[H1] = "kill_processes_on_port"
    /\ line[H1] = 323 /\ ret[H1]

\* C34: for a metric_url that cannot be parsed into a host (no scheme, no
\* host, or a port that is no port number) extract_target_from_url returns
\* the text it was given.
C34_UnparseableGivesRawInput ==
    Applied("extract_target_from_url") =>
        LET url == args[2] IN
        (\/ url.scheme = ""
         \/ url.host = ""
         \/ url.port # <<>> /\ (~IsNumber(url.port) \/ ToInt(url.port) > MaxPort))
            => returned = <<"url", url>>

\* C35: stop_monitoring returns after its join whether or not the thread has
\* exited; and while monitoring_active is False a monitor thread at line 122
\* leaves the loop instead of polling, the flag staying False as long as a
\* monitor thread is alive.
C35_StopMonitoringReturnsAndLoopExits ==
    /\ [](\A t \in Handlers :
            op[t] = "stop_monitoring" => pc[t] \in {"pm_flag", "pm_join", "done"})
    /\ [][/\ \A t \in Handlers :
               (op[t] = "stop_monitoring" /\ pc'[t] # pc[t] /\ pc[t] # "done")
               => /\ pc[t] = "pm_flag" => /\ monitoring_active' = FALSE
                                          /\ pc'[t] \in {"pm_join", "done"}
                  /\ pc[t] = "pm_join" => /\ pc'[t] = "done" /\ line'[t] = 170
                                          /\ UNCHANGED <<pc[monitoring_thread], mon>>
          /\ \A m \in Monitors :
               /\ (pc[m] = "m_loop" /\ ~monitoring_active /\ pc'[m] # pc[m])
                      => pc'[m] = "exited"
               /\ (pc[m] # "m_fetch" /\ pc'[m] = "m_fetch")
                      => pc[m] = "m_loop" /\ monitoring_active
               /\ (IsAlive(m) /\ ~monitoring_active) => ~monitoring_active']_vars

\* stop_monitoring has returned after its join while the monitor thread, in
\* its sleep, is still alive.
C35_Witness ==
    /\ pc[H1] = "done" /\ op[H1] = "stop_monitoring" /\ line[H1] = 170
    /\ ~monitoring_active
    /\ monitoring_thread # NoThread /\ pc[monitoring_thread] = "m_sleep"

\* C36: no step of a monitor thread (monitor_services and the
\* reload_prometheus it calls) launches or ends a process or assigns
\* prometheus_process; its only signal is the SIGHUP of a reload, so an
\* absent daemon stays absent and a running one stays running.
C36_MonitorLeavesLifecycleAlone ==
    [][\A m \in Monitors :
         pc'[m] # pc[m]
         => /\ UNCHANGED <<prometheus_process, proc>>
            /\ sent' \subseteq {<<prometheus_process, "HUP">>}
            /\ Running' = Running
            /\ (prometheus_process = NoProcess) => sent' = {}]_vars

\* The monitor thread has finished a cycle that reloaded the daemon, which is
\* running as before.
C36_Witness ==
    \E m \in Monitors :
        /\ pc[m] = "m_sleep" /\ line[m] = 429 /\ ret[m] /\ calls[m] = 1
        /\ Running /\ proc[prometheus_process] = "alive"
        /\ sent = {<<prometheus_process, "HUP">>}

\* C37: a check made while last_services_hash is None reports no change
\* whatever rows it read: it stores their fingerprint as the baseline and
\* returns at line 107, and the cycle goes to its sleep without a reload, so
\* the first services of an empty registry cause no reload.
C37_NoneBaselineReportsNothing ==
    /\ [](\A m \in Monitors :
            (pc[m] = "m_sleep" /\ line[m] = 107)
                => calls[m] = 0 /\ last_services_hash = get_services_hash(seen[m]))
    /\ [][\A m \in Monitors :
            (pc[m] = "m_cmp" /\ last_services_hash = None /\ pc'[m] # pc[m])
            => /\ pc'[m] = "m_sleep" /\ line'[m] = 107
               /\ last_services_hash' = get_services_hash(seen[m])
               /\ sent' = {} /\ calls'[m] = 0
               /\ UNCHANGED <<config_file, prometheus_process, proc>>]_vars

\* The registry was empty at startup; the daemon runs on the services added
\* since, and the monitor's check has taken them as its baseline without a
\* reload.
C37_Witness ==
    \E m \in Monitors :
        /\ pc[m] = "m_sleep" /\ line[m] = 107 /\ calls[m] = 0
        /\ seen[m] # <<>> /\ last_services_hash = get_services_hash(seen[m])
        /\ Running

\* C38: a check that reads no rows (an empty registry or a failed read)
\* while last_services_hash holds a fingerprint ends in the except clause of
\* the loop (line 110 raises before the store of line 111): the fingerprint
\* is kept, nothing is reloaded and the loop goes on to its next cycle; a
\* check that reads the rows of the stored fingerprint reports no change
\* (line 114) and reloads nothing.
C38_EmptyReadKeepsBaseline ==
    [][\A m \in Monitors :
         /\ (pc[m] = "m_cmp" /\ last_services_hash # None /\ pc'[m] # pc[m]
                /\ get_services_hash(seen[m]) = None)
            => /\ pc'[m] = "m_except" /\ line'[m] = 110
               /\ UNCHANGED <<last_services_hash, config_file>>
               /\ sent' = {} /\ calls'[m] = 0
         /\ (pc[m] = "m_except" /\ pc'[m] # pc[m])
            => /\ pc'[m] = "m_loop"
               /\ UNCHANGED <<last_services_hash, config_file>>
               /\ sent' = {}
         /\ (pc[m] = "m_cmp" /\ last_services_hash # None /\ pc'[m] # pc[m]
                /\ get_services_hash(seen[m]) = last_services_hash)
            => /\ pc'[m] = "m_sleep" /\ line'[m] = 114
               /\ UNCHANGED <<last_services_hash, config_file>>
               /\ sent' = {} /\ calls'[m] = 0]_vars

\* A read of the unchanged, non-empty registry has failed while the daemon
\* runs: the cycle is in the except clause and the baseline is still the
\* registry's fingerprint.
C38_Witness ==
    \E m \in Monitors :
        /\ pc[m] = "m_except" /\ line[m] = 110 /\ seen[m] = <<>>
        /\ registry # {}
        /\ last_services_hash = get_services_hash(Rows(registry))
        /\ Running /\ calls[m] = 0

\* prometheus_process refers to a daemon that has exited (a crash, or the
\* kill-port operation) and that stop_prometheus has not cleared.
StaleHandle == prometheus_process # NoProcess /\ proc[prometheus_process] = "dead"

\* C39: called with a handle on a daemon that has exited, reload_prometheus
\* returns False at line 419 and sends nothing, stop_prometheus returns True
\* at line 406 and changes nothing, and start_prometheus does not return at
\* line 339 but goes on to the port clean-up, the configuration and Popen,
\* which puts a new process in prometheus_process.
C39_DeadHandleIsRecovered ==
    /\ [][\A t \in Handlers :
            (op[t] = "start" /\ pc[t] # "done" /\ pc'[t] = "done" /\ line'[t] = 339)
                => Running]_vars
    /\ [][\A t \in Handlers :
            (StaleHandle /\ pc'[t] # pc[t]) =>
                /\ (op[t] = "reload" /\ pc[t] \in {"r_check1", "r_check2"})
                       => /\ pc'[t] = IF pc[t] = "r_check1" THEN "r_check2" ELSE "done"
                          /\ pc'[t] = "done" => ret'[t] = FALSE /\ line'[t] = 419
                          /\ sent' = {}
                          /\ UNCHANGED <<prometheus_process, proc, config_file>>
                /\ (op[t] = "stop" /\ pc[t] \in {"p_check1", "p_check2"})
                       => /\ pc'[t] = IF pc[t] = "p_check1" THEN "p_check2" ELSE "done"
                          /\ pc'[t] = "done" => ret'[t] = TRUE /\ line'[t] = 406
                          /\ sent' = {}
                          /\ UNCHANGED <<prometheus_process, proc, config_file>>
                /\ (op[t] = "start" /\ pc[t] \in StartPcs)
                       => /\ pc[t] = "s_check1" => pc'[t] = "s_check2"
                          /\ pc[t] = "s_check2" => pc'[t] = "s_killport"
                          /\ pc'[t] = "s_grace"
                                => /\ prometheus_process' \in Procs
                                   /\ prometheus_process' # prometheus_process
                                   /\ proc[prometheus_process'] = "unborn"
                                   /\ proc'[prometheus_process'] = "alive"]_vars

\* The daemon has exited without a stop; a start has gone past the
\* already-running test, has written the configuration and is about to launch
\* a new daemon over the stale handle.
C39_Witness ==
    /\ pc[H1] = "s_spawn" /\ op[H1] = "start" /\ StaleHandle
    /\ cur[H1] # <<>> /\ config_file = generate_prometheus_config(cur[H1])

\* C40: cleanup_on_exit calls stop_monitoring before stop_prometheus, so
\* monitoring_active is False during and after its stop_prometheus; when it
\* has returned no daemon is tracked as running, and this stays so while the
\* monitor thread finishes its cycle.
C40_CleanupStopsMonitorThenDaemon ==
    /\ [](\A t \in Handlers :
            op[t] = "cleanup_on_exit" =>
                /\ pc[t] \in {"c_flag", "c_join", "done"} \cup StopPcs
                /\ pc[t] \in StopPcs \cup {"c_join", "done"} => ~monitoring_active
                /\ pc[t] = "done" => ~Running)
    /\ [][\A t \in Handlers :
            (op[t] = "cleanup_on_exit" /\ pc'[t] # pc[t])
            => /\ pc'[t] = "p_check1" => pc[t] \in {"c_flag", "c_join"}
               /\ pc[t] \in {"c_flag", "c_join"}
                    => sent' = {} /\ UNCHANGED <<prometheus_process, proc>>]_vars

\* cleanup_on_exit has stopped the daemon and returned while the monitor
\* thread is still in the reload of its last cycle.
C40_Witness ==
    /\ pc[H1] = "done" /\ op[H1] = "cleanup_on_exit" /\ line[H1] = 403
    /\ prometheus_process = NoProcess /\ ~monitoring_active
    /\ pc[M1] = "r_write" /\ proc[1] = "dead"

====
